---- MODULE Spec2Model ----
(***************************************************************************)
(* Hybrid retrieval pipeline of the user-story RAG service.                *)
(*                                                                         *)
(* Two entry points are modelled:                                          *)
(*   route "three" : the app-router POST (vector + bm25 + LLM signal)      *)
(*   route "two"   : the pages-router handler (vector + bm25 only)         *)
(* Every action is one run of the handler between two awaits.              *)
(*                                                                         *)
(* Numbers are exact rationals <<n, d>> with d > 0 in lowest terms;        *)
(* <<0, 0>> is NaN, <<1, 0>> and <<-1, 0>> are the infinities, and <<>> is *)
(* JavaScript's undefined.                                                 *)
(***************************************************************************)
EXTENDS Integers, Sequences, FiniteSets, TLC

\* ------------------------------------------------------------------ bounds
MaxDocs == 3

MaxJudged == 1

\* ------------------------------------------------------- program constants
DEFAULT_TOPK_POST == 6
DEFAULT_TOPK_HANDLER == 5

\* ------------------------------------------------------------- arithmetic
Abs(n) == IF n < 0 THEN -n ELSE n

Sign(n) == IF n < 0 THEN -1 ELSE IF n > 0 THEN 1 ELSE 0

Min2(a, b) == IF a < b THEN a ELSE b

RECURSIVE Gcd(_, _)
Gcd(a, b) == IF b = 0 THEN a ELSE Gcd(b, a % b)

NaN == <<0, 0>>

Undefined == <<>>

Zero == <<0, 1>>

One == <<1, 1>>

IsFinite(x) == x # Undefined /\ x[2] # 0

IsNaN(x) == x = NaN

\* n / d as a number, for integers n and d
Frac(n, d) ==
    IF d = 0 THEN <<Sign(n), 0>>
    ELSE LET g == Gcd(Abs(n), Abs(d))
             s == Sign(d)
         IN  <<(s * n) \div g, (s * d) \div g>>

\* ToNumber: undefined becomes NaN
ToNum(x) == IF x = Undefined THEN NaN ELSE x

Add(a, b) ==
    LET x == ToNum(a)
        y == ToNum(b)
    IN  IF IsFinite(x) /\ IsFinite(y) THEN Frac(x[1] * y[2] + y[1] * x[2], x[2] * y[2])
        ELSE IF IsNaN(x) \/ IsNaN(y) THEN NaN
        ELSE IF IsFinite(x) THEN y
        ELSE IF IsFinite(y) THEN x
        ELSE IF x = y THEN x ELSE NaN

Neg(a) == LET x == ToNum(a) IN <<-x[1], x[2]>>

Sub(a, b) == Add(a, Neg(b))

Mul(a, b) ==
    LET x == ToNum(a)
        y == ToNum(b)
    IN  IF IsFinite(x) /\ IsFinite(y) THEN Frac(x[1] * y[1], x[2] * y[2])
        ELSE IF IsNaN(x) \/ IsNaN(y) THEN NaN
        ELSE IF x[1] * y[1] = 0 THEN NaN
        ELSE <<Sign(x[1] * y[1]), 0>>

Div(a, b) ==
    LET x == ToNum(a)
        y == ToNum(b)
    IN  IF IsFinite(x) /\ IsFinite(y) THEN Frac(x[1] * y[2], x[2] * y[1])
        ELSE IF IsNaN(x) \/ IsNaN(y) THEN NaN
        ELSE IF IsFinite(x) THEN Zero
        ELSE IF IsFinite(y) THEN <<x[1] * (IF y[1] < 0 THEN -1 ELSE 1), 0>>
        ELSE NaN

\* a < b ; every comparison with NaN is false
Less(a, b) ==
    LET x == ToNum(a)
        y == ToNum(b)
    IN  IF IsNaN(x) \/ IsNaN(y) THEN FALSE
        ELSE IF IsFinite(x) /\ IsFinite(y) THEN x[1] * y[2] < y[1] * x[2]
        ELSE IF IsFinite(x) THEN y[1] > 0
        ELSE IF IsFinite(y) THEN x[1] < 0
        ELSE x[1] < y[1]

Leq(a, b) == ~IsNaN(ToNum(a)) /\ ~IsNaN(ToNum(b)) /\ ~Less(b, a)

\* JavaScript truthiness of a number-or-undefined
Truthy(x) == x # Undefined /\ x # NaN /\ x # Zero

\* a || b
OrElse(a, b) == IF Truthy(a) THEN a ELSE b

\* a ?? b
Coalesce(a, b) == IF a = Undefined THEN b ELSE a

\* Math.sqrt on the perfect squares the embeddings of the model produce
Sqrt(n) == CHOOSE k \in 0..n : k * k = n

RECURSIVE MinOf(_)
MinOf(s) ==
    IF Len(s) = 1 THEN s[1]
    ELSE LET m == MinOf(Tail(s)) IN IF Less(m, s[1]) THEN m ELSE s[1]

RECURSIVE MaxOf(_)
MaxOf(s) ==
    IF Len(s) = 1 THEN s[1]
    ELSE LET m == MaxOf(Tail(s)) IN IF Less(s[1], m) THEN m ELSE s[1]

\* ------------------------------------------------------------------ texts
\* A text is a sequence of one-character strings.
\* a string literal as the sequence of its characters
Chars(str) == [i \in 1..Len(str) |-> SubSeq(str, i, i)]

UpperCase == Chars("ABCDEFGHIJKLMNOPQRSTUVWXYZ")

LowerCase == Chars("abcdefghijklmnopqrstuvwxyz")

Lower(c) ==
    IF \E i \in DOMAIN UpperCase : UpperCase[i] = c
    THEN LowerCase[CHOOSE i \in DOMAIN UpperCase : UpperCase[i] = c]
    ELSE c

Upper(c) ==
    IF \E i \in DOMAIN LowerCase : LowerCase[i] = c
    THEN UpperCase[CHOOSE i \in DOMAIN LowerCase : LowerCase[i] = c]
    ELSE c

\* String.prototype.toLowerCase
ToLowerCase(s) == [i \in DOMAIN s |-> Lower(s[i])]

IsSpace(c) == c = " "

\* index of the first non-space character of s at or after i, Len(s) + 1 if none
RECURSIVE SkipSpaces(_, _)
SkipSpaces(s, i) ==
    IF i > Len(s) \/ ~IsSpace(s[i]) THEN i ELSE SkipSpaces(s, i + 1)

\* index of the last character of the run of non-space characters that
\* starts at i
TokenEnd(s, i) ==
    CHOOSE j \in i..Len(s) :
        /\ \A k \in i..j : ~IsSpace(s[k])
        /\ j = Len(s) \/ IsSpace(s[j + 1])

RECURSIVE SplitFrom(_, _, _, _)
SplitFrom(s, i, cur, acc) ==
    IF i > Len(s) THEN Append(acc, cur)
    ELSE IF IsSpace(s[i]) THEN SplitFrom(s, SkipSpaces(s, i), <<>>, Append(acc, cur))
    ELSE SplitFrom(s, TokenEnd(s, i) + 1, cur \o SubSeq(s, i, TokenEnd(s, i)), acc)

\* text.split(/\s+/): "" gives [""], leading or trailing blanks give an empty token
SplitWhitespace(s) == SplitFrom(s, 1, <<>>, <<>>)

SetOf(s) == {s[i] : i \in DOMAIN s}

computeTextSimilarity(text1, text2) ==
    LET words1 == SetOf(SplitWhitespace(text1))
        words2 == SetOf(SplitWhitespace(text2))
        intersection == {x \in words1 : x \in words2}
        union == words1 \cup words2
    IN  Frac(Cardinality(intersection), Cardinality(union))

\* ---------------------------------------------------------------- vectors
RECURSIVE SumProd(_, _, _)
SumProd(a, b, i) ==
    IF i > Len(a) THEN 0 ELSE a[i] * b[i] + SumProd(a, b, i + 1)

\* vec1 is the query embedding (always an array here), vec2 the stored one
computeCosineSimilarity(vec1, vec2) ==
    IF Len(vec1) # Len(vec2) THEN Zero
    ELSE LET dot == SumProd(vec1, vec2, 1)
             na == SumProd(vec1, vec1, 1)
             nb == SumProd(vec2, vec2, 1)
         IN  IF na = 0 \/ nb = 0 THEN Zero
             ELSE Frac(dot, Sqrt(na) * Sqrt(nb))

\* -------------------------------------------------------------- documents
\* A stored document: _id (as its toString), content, whether content is a
\* string (isStr), whether embedding is an array (hasEmb) and the embedding.
Doc(id, content, isStr, hasEmb, emb) ==
    [_id |-> id, content |-> content, isStr |-> isStr, hasEmb |-> hasEmb, embedding |-> emb,
     metadata |-> "m0"]

DocPool ==
    { Doc("d1", <<"a", " ", "b", ".">>, TRUE, TRUE, <<1, 0>>),
      Doc("d2", <<"a", " ", "c">>, TRUE, FALSE, <<>>),
      Doc("d3", <<"c", " ", "A">>, TRUE, TRUE, <<0, 1>>),
      Doc("d4", <<"4">>, FALSE, TRUE, <<3, 4>>),
      Doc("d5", <<>>, TRUE, TRUE, <<1, 0>>) }

\* the collections the store can hold: _id is unique
Corpora ==
    UNION { { c \in [1..n -> DocPool] : \A i, j \in 1..n : i # j => c[i]._id # c[j]._id }
            : n \in 0..MaxDocs }

\* outputs of normalizeStory: first letter upper case, the rest lower case,
\* closing punctuation
QueryPool == { <<"A", " ", "b", ".">> }

\* embeddings the provider returns for the query
EmbeddingPool == { <<1, 0>>, <<3, 4>> }

\* request configurations: weights are non-negative numbers or missing, topK
\* is a non-negative integer or missing
Config(v, b, h, k) == [vectorWeight |-> v, bm25Weight |-> b, hybridWeight |-> h, topK |-> k]

ConfigPool ==
    { Config(Frac(3, 5), Frac(3, 10), Frac(1, 10), Frac(2, 1)),
      Config(Zero, Zero, Zero, Undefined),
      Config(One, One, One, One),
      Config(Frac(1, 2), Frac(1, 2), Undefined, Frac(2, 1)),
      Config(Frac(3, 5), Frac(3, 10), Frac(1, 10), Zero) }

DEFAULT_CONFIG_POST ==
    Config(Frac(3, 5), Frac(3, 10), Frac(1, 10), Frac(DEFAULT_TOPK_POST, 1))

DEFAULT_CONFIG_HANDLER ==
    Config(Frac(7, 10), Frac(3, 10), Undefined, Frac(DEFAULT_TOPK_HANDLER, 1))

\* ------------------------------------------------------ weight handling
\* mutant of NormalizeWeightsPOST: the total leaves the hybrid weight out
NormalizeWeightsPOSTTwoOnly(config) ==
    LET v == Coalesce(config.vectorWeight, Frac(3, 5))
        b == Coalesce(config.bm25Weight, Frac(3, 10))
        h == Coalesce(config.hybridWeight, Frac(1, 10))
        totalWeight == OrElse(Add(v, b), One)
    IN  [config EXCEPT !.vectorWeight = Div(v, totalWeight),
                       !.bm25Weight = Div(b, totalWeight),
                       !.hybridWeight = Div(h, totalWeight)]

\* POST: v, b, h with defaults, totalWeight = v + b + h || 1
NormalizeWeightsPOST(config) ==
    LET v == Coalesce(config.vectorWeight, DEFAULT_CONFIG_POST.vectorWeight)
        b == Coalesce(config.bm25Weight, DEFAULT_CONFIG_POST.bm25Weight)
        h == Coalesce(Coalesce(config.hybridWeight, DEFAULT_CONFIG_POST.hybridWeight), Zero)
        totalWeight == OrElse(Add(Add(v, b), h), One)
    IN  [config EXCEPT !.vectorWeight = Div(v, totalWeight),
                       !.bm25Weight = Div(b, totalWeight),
                       !.hybridWeight = Div(h, totalWeight)]

\* handler: totalWeight = vectorWeight + bm25Weight, no default and no guard
NormalizeWeightsHandler(config) ==
    LET totalWeight == Add(config.vectorWeight, config.bm25Weight)
    IN  [config EXCEPT !.vectorWeight = Div(config.vectorWeight, totalWeight),
                       !.bm25Weight = Div(config.bm25Weight, totalWeight)]

\* ------------------------------------------------------------ the search
\* mutant of DummyResults: an empty collection gives an empty list
DummyResultsNone == <<>>

\* the placeholder returned when countDocuments() is 0
DummyResults ==
    << [_id |-> "1", content |-> <<"e", "x">>, isStr |-> TRUE,
        vector_score |-> Zero, bm25_score |-> Zero,
        vector_score_norm |-> Zero, bm25_score_norm |-> Zero,
        hybrid_score |-> Zero] >>

\* the scoring loop over the fetched documents: [knn, text], each a sequence
\* of [doc, score]
RECURSIVE ScoreDocuments(_, _, _, _, _)
ScoreDocuments(documents, i, embedding, text, acc) ==
    IF i > Len(documents) THEN acc
    ELSE LET doc == documents[i]
             knn1 == IF doc.hasEmb
                     THEN Append(acc.knn, [doc |-> doc,
                              score |-> computeCosineSimilarity(embedding, doc.embedding)])
                     ELSE acc.knn
         IN  IF doc.content = <<>> /\ doc.isStr
             THEN ScoreDocuments(documents, i + 1, embedding, text, acc)
             ELSE IF ~doc.isStr
             THEN \* content.toLowerCase is not a function: caught, next document
                  ScoreDocuments(documents, i + 1, embedding, text,
                                 [knn |-> knn1, text |-> acc.text])
             ELSE ScoreDocuments(documents, i + 1, embedding, text,
                      [knn |-> knn1,
                       text |-> Append(acc.text, [doc |-> doc,
                           score |-> computeTextSimilarity(ToLowerCase(text),
                                                           ToLowerCase(doc.content))])])

SelectSeqIdx(s, Keep(_)) ==
    LET F[i \in 0..Len(s)] ==
            IF i = 0 THEN <<>>
            ELSE IF Keep(i) THEN Append(F[i - 1], s[i]) ELSE F[i - 1]
    IN  F[Len(s)]

\* handler only: when no vector result exists, score the text results that
\* carry a non-empty embedding
KnnFallback(knn, text, embedding) ==
    IF Len(knn) # 0 THEN knn
    ELSE LET withEmb == SelectSeqIdx(text,
                 LAMBDA i : text[i].doc.hasEmb /\ Len(text[i].doc.embedding) > 0)
         IN  [i \in DOMAIN withEmb |->
                 [doc |-> withEmb[i].doc,
                  score |-> computeCosineSimilarity(embedding, withEmb[i].doc.embedding)]]

IndexOfId(seq, id) ==
    IF \E i \in DOMAIN seq : seq[i]._id = id
    THEN CHOOSE i \in DOMAIN seq : seq[i]._id = id /\ \A j \in 1..(i - 1) : seq[j]._id # id
    ELSE 0

\* mutant of addToMap: never looks the id up, always adds an entry
addToMapAlwaysAppend(map, entry, scoreField) ==
    Append(map, [_id |-> entry.doc._id, content |-> entry.doc.content,
                 isStr |-> entry.doc.isStr,
                 vector_score |-> IF scoreField = "vector_score" THEN entry.score ELSE Zero,
                 bm25_score |-> IF scoreField = "bm25_score" THEN entry.score ELSE Zero,
                 vector_score_norm |-> Zero, bm25_score_norm |-> Zero,
                 hybrid_score |-> Zero])

\* addToMap: the map is kept as the sequence of its values in insertion order
addToMap(map, entry, scoreField) ==
    LET k == IndexOfId(map, entry.doc._id)
        existing == IF k # 0 THEN map[k]
                    ELSE [_id |-> entry.doc._id, content |-> entry.doc.content,
                          isStr |-> entry.doc.isStr,
                          vector_score |-> Zero, bm25_score |-> Zero,
                          vector_score_norm |-> Zero, bm25_score_norm |-> Zero,
                          hybrid_score |-> Zero]
        updated == IF scoreField = "vector_score"
                   THEN [existing EXCEPT !.vector_score = Coalesce(entry.score, Zero)]
                   ELSE [existing EXCEPT !.bm25_score = Coalesce(entry.score, Zero)]
    IN  IF k # 0 THEN [map EXCEPT ![k] = updated] ELSE Append(map, updated)

RECURSIVE AddAll(_, _, _, _)
AddAll(map, entries, i, scoreField) ==
    IF i > Len(entries) THEN map
    ELSE AddAll(addToMap(map, entries[i], scoreField), entries, i + 1, scoreField)

\* knnResults.forEach(...); textResults.forEach(...); Array.from(values)
MergeResults(knn, text) == AddAll(AddAll(<<>>, knn, 1, "vector_score"), text, 1, "bm25_score")

\* mutant of normalizeScore: a flat batch is scored 0
normalizeScoreFlatZero(score, min, max) ==
    IF max = min THEN Zero ELSE Div(Sub(score, min), Sub(max, min))

normalizeScore(score, min, max) ==
    IF max = min THEN One ELSE Div(Sub(score, min), Sub(max, min))

\* mutant of FuseTwo: the lexical term is left out of the fused score
FuseTwoVectorOnly(vectorScoreNorm, bm25ScoreNorm, config) ==
    Mul(vectorScoreNorm, config.vectorWeight)

FuseTwo(vectorScoreNorm, bm25ScoreNorm, config) ==
    Add(Mul(vectorScoreNorm, config.vectorWeight), Mul(bm25ScoreNorm, config.bm25Weight))

NormalizeResults(merged, config) ==
    LET vectorScores == [i \in DOMAIN merged |-> merged[i].vector_score]
        bm25Scores == [i \in DOMAIN merged |-> merged[i].bm25_score]
        minVectorScore == MinOf(vectorScores)
        maxVectorScore == MaxOf(vectorScores)
        minBM25Score == MinOf(bm25Scores)
        maxBM25Score == MaxOf(bm25Scores)
    IN  [i \in DOMAIN merged |->
            LET vectorScoreNorm ==
                    normalizeScore(merged[i].vector_score, minVectorScore, maxVectorScore)
                bm25ScoreNorm ==
                    normalizeScore(merged[i].bm25_score, minBM25Score, maxBM25Score)
            IN  [merged[i] EXCEPT !.vector_score_norm = vectorScoreNorm,
                                  !.bm25_score_norm = bm25ScoreNorm,
                                  !.hybrid_score = FuseTwo(vectorScoreNorm, bm25ScoreNorm, config)]]

\* the comparator (a, b) => b - a on keys; a NaN result counts as 0
CompareDesc(ka, kb) == Sub(kb, ka)

\* insert x (key kx) into the sorted pairs: before the first y that the
\* comparator puts after x, so equal elements keep their order
RECURSIVE InsertSorted(_, _)
InsertSorted(sorted, x) ==
    IF sorted = <<>> THEN <<x>>
    ELSE IF Less(Zero, CompareDesc(sorted[1].key, x.key))
         THEN <<x>> \o sorted
         ELSE <<sorted[1]>> \o InsertSorted(Tail(sorted), x)

\* Array.prototype.sort with that comparator (stable)
RECURSIVE SortPairs(_, _, _)
SortPairs(pairs, i, sorted) ==
    IF i > Len(pairs) THEN sorted
    ELSE SortPairs(pairs, i + 1, InsertSorted(sorted, pairs[i]))

\* mutant of SortByHybrid: the list is left in merge order
SortByHybridNone(results) == results

SortByHybrid(results) ==
    LET pairs == [i \in DOMAIN results |-> [key |-> results[i].hybrid_score, val |-> results[i]]]
        sorted == SortPairs(pairs, 1, <<>>)
    IN  [i \in DOMAIN sorted |-> sorted[i].val]

\* filter(index === self.findIndex(same _id))
Deduplicate(sorted) == SelectSeqIdx(sorted, LAMBDA i : i = IndexOfId(sorted, sorted[i]._id))

\* mutant of Slice: the list is returned whole
SliceAll(seq, end) == seq

\* Array.prototype.slice(0, end) for end undefined or a non-negative integer
Slice(seq, end) ==
    IF end = Undefined THEN seq ELSE SubSeq(seq, 1, Min2(end[1], Len(seq)))

\* whole synchronous part of performHybridSearch after find().toArray()
HybridSearch(documents, embedding, text, config, r) ==
    LET scored == ScoreDocuments(documents, 1, embedding, text, [knn |-> <<>>, text |-> <<>>])
        knn == IF r = "two" THEN KnnFallback(scored.knn, scored.text, embedding) ELSE scored.knn
        mergedList == MergeResults(knn, scored.text)
        normalized == IF mergedList = <<>> THEN <<>> ELSE NormalizeResults(mergedList, config)
        sorted == SortByHybrid(normalized)
    IN  [knnResults |-> knn, textResults |-> scored.text, merged |-> mergedList,
         normalizedResults |-> sorted,
         result |-> Slice(Deduplicate(sorted), config.topK)]

\* ------------------------------------------------------- semantic judge
\* The content of an answer is a sequence of characters, in which "K" stands
\* for the member name "llm_score" with its quotes and colon and "x" for a
\* letter.
Digits == <<"0", "1", "2", "3", "4", "5", "6", "7", "8", "9">>

IsDigit(ch) == \E i \in DOMAIN Digits : Digits[i] = ch

DigitValue(ch) == (CHOOSE i \in DOMAIN Digits : Digits[i] = ch) - 1

RECURSIVE Pow10(_)
Pow10(k) == IF k = 0 THEN 1 ELSE 10 * Pow10(k - 1)

RECURSIVE DigitsValue(_)
DigitsValue(s) ==
    IF s = <<>> THEN 0
    ELSE 10 * DigitsValue(SubSeq(s, 1, Len(s) - 1)) + DigitValue(s[Len(s)])

\* first and last index of a character, 0 when it does not occur
IndexOfChar(s, ch) ==
    IF \E i \in DOMAIN s : s[i] = ch
    THEN CHOOSE i \in DOMAIN s : s[i] = ch /\ \A j \in 1..(i - 1) : s[j] # ch
    ELSE 0

LastIndexOfChar(s, ch) ==
    IF \E i \in DOMAIN s : s[i] = ch
    THEN CHOOSE i \in DOMAIN s : s[i] = ch /\ \A j \in (i + 1)..Len(s) : s[j] # ch
    ELSE 0

\* end of the longest run of characters satisfying Ok that starts at i
RunEnd(s, i, Ok(_)) ==
    CHOOSE j \in (i - 1)..Len(s) :
        /\ \A k \in i..j : Ok(s[k])
        /\ j = Len(s) \/ ~Ok(s[j + 1])

\* the number written as digits with an optional fraction: what parseFloat
\* and JSON.parse make of it
DecimalValue(s) ==
    LET dot == IndexOfChar(s, ".")
    IN  IF dot = 0 THEN Frac(DigitsValue(s), 1)
        ELSE LET int  == SubSeq(s, 1, dot - 1)
                 frac == SubSeq(s, dot + 1, Len(s))
             IN  Frac(DigitsValue(int) * Pow10(Len(frac)) + DigitsValue(frac),
                      Pow10(Len(frac)))

\* content.match(/\{[\s\S]*\}/): from the first "{" to the last "}", <<>>
\* when there is no match
JsonMatch(content) ==
    LET open  == IndexOfChar(content, "{")
        close == LastIndexOfChar(content, "}")
    IN  IF open > 0 /\ close > open THEN SubSeq(content, open, close) ELSE <<>>

TrimSpaces(s) ==
    LET inked == {i \in DOMAIN s : ~IsSpace(s[i])}
    IN  IF inked = {} THEN <<>>
        ELSE SubSeq(s, CHOOSE i \in inked : \A j \in inked : i <= j,
                       CHOOSE i \in inked : \A j \in inked : j <= i)

\* the JSON grammar of a number without sign and exponent
IsJsonNumber(s) ==
    LET dot  == IndexOfChar(s, ".")
        int  == IF dot = 0 THEN s ELSE SubSeq(s, 1, dot - 1)
        frac == IF dot = 0 THEN <<>> ELSE SubSeq(s, dot + 1, Len(s))
    IN  /\ int # <<>>
        /\ \A i \in DOMAIN int : IsDigit(int[i])
        /\ Len(int) = 1 \/ int[1] # "0"
        /\ dot # 0 => frac # <<>>
        /\ \A i \in DOMAIN frac : IsDigit(frac[i])

\* JSON.parse(jsonMatch[0]) over the characters above: the match is an object
\* when it is {} or {"llm_score": number}; anything else throws
JSONParse(seg) ==
    LET body == TrimSpaces(SubSeq(seg, 2, Len(seg) - 1))
        value == TrimSpaces(Tail(body))
    IN  IF body = <<>> THEN [ok |-> TRUE, llm_score |-> Undefined]
        ELSE IF body[1] = "K" /\ IsJsonNumber(value)
             THEN [ok |-> TRUE, llm_score |-> DecimalValue(value)]
             ELSE [ok |-> FALSE, llm_score |-> Undefined]

\* content.match(/([0](?:\.[0-9]+)?|1(?:\.0+)?)/)[1]: the leftmost "0" or "1"
\* with the fraction the pattern allows after it, <<>> when there is no match
NumMatch(content) ==
    LET starts == {i \in DOMAIN content : content[i] \in {"0", "1"}}
    IN  IF starts = {} THEN <<>>
        ELSE LET i == CHOOSE n \in starts : \A m \in starts : n <= m
                 InFraction(ch) == IF content[i] = "0" THEN IsDigit(ch) ELSE ch = "0"
             IN  IF i + 2 <= Len(content) /\ content[i + 1] = "." /\ InFraction(content[i + 2])
                 THEN SubSeq(content, i, RunEnd(content, i + 2, InFraction))
                 ELSE <<content[i]>>

\* what one mistral.chat call can do: reject (kind "throw") or answer with a
\* content.  kind and score say what the answer was meant to be: a JSON object
\* with that llm_score ("json"), braces that hold no JSON ("badjson"), plain
\* text ("text").  The handler reads the content only.
Reply(kind, score, content) == [kind |-> kind, score |-> score, content |-> content]

JudgePool ==
    { Reply("throw", Undefined, <<>>),
      Reply("json", Frac(1, 2), <<"{", "K", "0", ".", "5", "}">>),
      Reply("json", Frac(2, 1), <<"{", "K", "2", "}">>),
      Reply("badjson", Undefined, <<"{", "K", "x", "}">>) }

\* the parsing block: llmScore from the content of the answer
ParseLlmScore(reply) ==
    LET content   == reply.content
        jsonMatch == JsonMatch(content)
        numMatch  == NumMatch(content)
    IN  IF jsonMatch # <<>>
        THEN LET parsed == JSONParse(jsonMatch)
             IN  IF parsed.ok THEN OrElse(ToNum(parsed.llm_score), Zero) ELSE Zero
        ELSE IF numMatch # <<>> THEN DecimalValue(numMatch) ELSE Zero

FuseThree(c, llmScore, config) ==
    Add(Add(Mul(Coalesce(c.vector_score_norm, Zero), config.vectorWeight),
            Mul(Coalesce(c.bm25_score_norm, Zero), config.bm25Weight)),
        Mul(Coalesce(config.hybridWeight, Zero), llmScore))

Enhanced(c, llmScore, reason, final) ==
    [_id |-> c._id, content |-> c.content, isStr |-> c.isStr,
     vector_score |-> c.vector_score, bm25_score |-> c.bm25_score,
     vector_score_norm |-> c.vector_score_norm, bm25_score_norm |-> c.bm25_score_norm,
     hybrid_score |-> c.hybrid_score,
     llm_score |-> llmScore, llm_reason |-> reason, hybrid_score_final |-> final]

\* mutant of EnhanceFailed: the failed candidate is pushed without the
\* 'LLM failed' reason
EnhanceFailedUnmarked(c) == Enhanced(c, Zero, "", c.hybrid_score)

\* mutant of EnhanceFailed: the failed candidate loses its provisional score
EnhanceFailedZero(c) == Enhanced(c, Zero, "LLM failed", Zero)

\* the catch branch of the per-candidate try
EnhanceFailed(c) == Enhanced(c, Zero, "LLM failed", c.hybrid_score)

\* the try branch once mistral.chat has answered
EnhanceAnswered(c, reply, config) ==
    LET llmScore == ParseLlmScore(reply)
    IN  Enhanced(c, llmScore, "reason", FuseThree(c, llmScore, config))

EnhanceOne(c, reply, config) ==
    IF reply.kind = "throw" THEN EnhanceFailed(c) ELSE EnhanceAnswered(c, reply, config)

\* mutant of SortByFinal: the list is left in provisional order
SortByFinalNone(list) == list

\* enhanced.sort((a, b) => (b.hybrid_score_final || 0) - (a.hybrid_score_final || 0))
SortByFinal(list) ==
    LET pairs == [i \in DOMAIN list |->
                     [key |-> OrElse(list[i].hybrid_score_final, Zero), val |-> list[i]]]
        sorted == SortPairs(pairs, 1, <<>>)
    IN  [i \in DOMAIN sorted |-> sorted[i].val]

\* the loop runs without awaiting while (c.content || '').slice throws, which
\* it does for a content that is no string: the catch branch takes those
RECURSIVE RunToAwait(_, _, _)
RunToAwait(candidates, i, acc) ==
    IF i > Len(candidates) THEN [idx |-> i, enhanced |-> acc]
    ELSE IF ~candidates[i].isStr
         THEN RunToAwait(candidates, i + 1, Append(acc, EnhanceFailed(candidates[i])))
         ELSE [idx |-> i, enhanced |-> acc]

\* ------------------------------------------------------------ the request
\* body.story: not given, the empty string, or a text
Story(given, text) == [given |-> given, text |-> text]

NoStory == Story(FALSE, <<>>)

StoryPool == {NoStory, Story(TRUE, <<>>), Story(TRUE, <<"a", " ", "B">>)}

\* mutant of StoryGiven: only a story that is not given counts as missing
StoryGivenAnyString(story) == story.given

\* the test !story passes the story on when it is a string that is not empty
StoryGiven(story) == story.given /\ story.text # <<>>

\* ---------------------------------------------------- steps in run order
\* one entry of the run log: a step of the pipeline on a document or
\* candidate (id "" for a step on the whole list)
Event(phase, id) == [phase |-> phase, id |-> id]

\* the scan loop: per document the vector score, then the lexical score
RECURSIVE ScanEvents(_, _)
ScanEvents(documents, i) ==
    IF i > Len(documents) THEN <<>>
    ELSE LET doc == documents[i]
         IN  IF doc.content = <<>> /\ doc.isStr THEN ScanEvents(documents, i + 1)
             ELSE (IF doc.hasEmb THEN <<Event("SCORE_VECTOR", doc._id)>> ELSE <<>>)
                  \o (IF doc.isStr THEN <<Event("SCORE_LEXICAL", doc._id)>> ELSE <<>>)
                  \o ScanEvents(documents, i + 1)

\* merged.map(...): per candidate the two normalizations, then the fusion
NormalizeFuseEvents(merged) ==
    [k \in 1..(2 * Len(merged)) |->
        IF k % 2 = 1 THEN Event("NORMALIZE", merged[(k + 1) \div 2]._id)
        ELSE Event("FUSE", merged[k \div 2]._id)]

\* the steps of performHybridSearch after find() has answered
SearchEvents(documents, hs, r) ==
    LET scan == ScanEvents(documents, 1)
        fallback == IF r = "two" /\ ~(\E i \in DOMAIN scan : scan[i].phase = "SCORE_VECTOR")
                    THEN [i \in DOMAIN hs.knnResults |->
                             Event("SCORE_VECTOR", hs.knnResults[i].doc._id)]
                    ELSE <<>>
        merge == [i \in DOMAIN hs.knnResults |-> Event("MERGE", hs.knnResults[i].doc._id)]
                 \o [i \in DOMAIN hs.textResults |-> Event("MERGE", hs.textResults[i].doc._id)]
    IN  IF hs.merged = <<>> THEN scan \o fallback \o merge
        ELSE scan \o fallback \o merge \o NormalizeFuseEvents(hs.merged)
             \o <<Event("RANK", ""), Event("TRUNCATE", "")>>

\* the candidates enhanceWithLLM has pushed since it had pushed those of before
RerankEvents(before, after) ==
    [i \in 1..(Len(after) - Len(before)) |->
        Event("SEMANTIC_RERANK", after[Len(before) + i]._id)]

\* -------------------------------------------------------------- ingestion
\* a story of an ingest request
StoryInput(content, metadata) == [content |-> content, metadata |-> metadata]

\* request bodies of /api/ingest: body.stories
BatchPool ==
    { <<StoryInput(<<"a", " ", "b", ".">>, "m1")>>,
      <<StoryInput(<<"n">>, "m1"), StoryInput(<<"n">>, "m2")>>,
      <<StoryInput(<<"n">>, "m1"), StoryInput(<<"a", " ", "c">>, "m2")>> }

\* what mistral.embeddings gives for a story: an embedding, or null when the
\* call fails or answers without data
Null == <<>>

StoryEmbeddingPool == {<<0, 1>>, Null}

\* the _id the store gives the n-th document it inserts
NewId(n) == <<"n1", "n2", "n3", "n4", "n5", "n6">>[n]

\* index of the first document whose content is the string content, 0 if none
IndexOfContent(store, content) ==
    LET hits == {i \in DOMAIN store : store[i].isStr /\ store[i].content = content}
    IN  IF hits = {} THEN 0 ELSE CHOOSE i \in hits : \A j \in hits : i <= j

\* mutant of Upsert: the write always inserts a document
UpsertInserts(store, s, embedding, id) ==
    Append(store, [Doc(id, s.content, TRUE, embedding # Null, embedding)
                     EXCEPT !.metadata = s.metadata])

\* mutant of Upsert: the write empties the collection
UpsertWipes(store, s, embedding, id) == <<>>

\* collection.updateOne({content}, {$set: {content, metadata, embedding}},
\* {upsert: true}): the first document with that content gets the new metadata
\* and embedding; without one a document is inserted
Upsert(store, s, embedding, id) ==
    LET k == IndexOfContent(store, s.content)
        set(doc) == [doc EXCEPT !.content = s.content, !.metadata = s.metadata,
                                !.hasEmb = embedding # Null, !.embedding = embedding]
    IN  IF k # 0 THEN [store EXCEPT ![k] = set(store[k])]
        ELSE Append(store, set(Doc(id, s.content, TRUE, FALSE, Null)))

IngestIdle ==
    [pc |-> "idle", stories |-> <<>>, idx |-> 0, embedding |-> Null, results |-> <<>>,
     status |-> 0, requests |-> 0, inserted |-> 0, before |-> <<>>]

\* ------------------------------------------------------- CSVIngestControl
\* a file the user can select: its name, whether the name ends in .csv, and
\* the number of stories parseCSV finds in its text
File(name, csv, stories) == [name |-> name, csv |-> csv, stories |-> stories]

FilePool ==
    { File("A.csv", TRUE, 1), File("B.csv", TRUE, 2), File("E.csv", TRUE, 0),
      File("T.txt", FALSE, 1) }

\* the value of storiesPayload: null, or the stories parsed from a file
NoPayload == [from |-> "", length |-> -1]

Payload(file) == [from |-> file.name, length |-> file.stories]

NoStatus == "none"

\* the component after its first render
UiStart ==
    [isUploading |-> FALSE, fileName |-> "", parsedCount |-> -1,
     storiesPayload |-> NoPayload, status |-> NoStatus,
     reads |-> {}, uploads |-> <<>>, selections |-> 0]

\* ----------------------------------------------------------- helper calls
\* the last direct call of a helper: its name, arguments and return value
NoCall == [fn |-> "none", args |-> <<>>, result |-> <<>>]

\* ------------------------------------------------------------------ state
VARIABLES
    corpus,            \* the stories collection, in scan order
    pc,                \* where the request handler is waiting
    route,             \* "three" (POST) or "two" (handler)
    story,             \* the request's story
    config,            \* the request's config, DEFAULT_CONFIG when it has none
    normalizedConfig,  \* config with the weights rescaled
    normalizedStory,   \* normalizeStory(story)
    storyEmbedding,    \* the query embedding
    count,             \* countDocuments(), -1 before it answers
    documents,         \* find({}).toArray()
    knnResults,        \* vector-score stream
    textResults,       \* lexical-score stream
    merged,            \* Array.from(mergedMap.values())
    normalizedResults, \* normalized, fused and sorted candidates
    relatedStories,    \* what performHybridSearch returned
    llmIdx,            \* enhanceWithLLM: index of the candidate being judged
    enhanced,          \* enhanceWithLLM: its result list
    judgeLog,          \* the replies of the judge, one per call, in call order
    thrown,            \* the step whose error reached the handler's catch, "" if none
    phaseLog,          \* the pipeline steps done so far, in run order
    response,          \* the HTTP response once the handler has returned
    snapshots,         \* the states the collection has had since the request came in
    ingest,            \* the ingest handler: where it waits, its stories, its results
    ui,                \* the CSVIngestControl component: its state and what it has sent
    call               \* the last call of a helper function with its arguments and result

vars ==
    <<corpus, pc, route, story, config, normalizedConfig, normalizedStory, storyEmbedding,
      count, documents, knnResults, textResults, merged, normalizedResults, relatedStories,
      llmIdx, enhanced, judgeLog, thrown, phaseLog, response, snapshots, ingest, ui, call>>

sideVars == <<snapshots, ingest, ui, call>>

searchVars == <<knnResults, textResults, merged, normalizedResults>>

requestVars == <<route, story, config, normalizedConfig, normalizedStory>>

llmVars == <<llmIdx, enhanced, judgeLog>>

NoResponse == [status |-> 0, ranked |-> <<>>, errors |-> <<>>]

\* mutant of ErrorResponse: the failed request is answered without error
ErrorResponseSilent(status, code, message) == [status |-> 200, ranked |-> <<>>, errors |-> <<>>]

ErrorResponse(status, code, message) ==
    [status |-> status, ranked |-> <<>>, errors |-> <<[code |-> code, message |-> message]>>]

\* the handler before a request: nothing received, nothing computed
Start ==
    /\ pc = "idle"
    /\ route = "none"
    /\ story = NoStory
    /\ config = DEFAULT_CONFIG_POST
    /\ normalizedConfig = DEFAULT_CONFIG_POST
    /\ normalizedStory = <<>>
    /\ storyEmbedding = <<>>
    /\ count = -1
    /\ documents = <<>>
    /\ knnResults = <<>>
    /\ textResults = <<>>
    /\ merged = <<>>
    /\ normalizedResults = <<>>
    /\ relatedStories = <<>>
    /\ llmIdx = 0
    /\ enhanced = <<>>
    /\ judgeLog = <<>>
    /\ thrown = ""
    /\ phaseLog = <<>>
    /\ response = NoResponse
    /\ snapshots = {}
    /\ ingest = IngestIdle
    /\ ui = UiStart
    /\ call = NoCall

Init ==
    /\ corpus \in Corpora
    /\ Start

\* handler: any method but POST is answered 405
RejectMethod ==
    /\ pc = "idle"
    /\ pc' = "done"
    /\ route' = "two"
    /\ response' = ErrorResponse(405, "METHOD_NOT_ALLOWED", "Only POST requests are allowed")
    /\ UNCHANGED sideVars
    /\ UNCHANGED <<corpus, story, config, normalizedConfig, normalizedStory, storyEmbedding,
                   count, documents, relatedStories, thrown, phaseLog>>
    /\ UNCHANGED searchVars
    /\ UNCHANGED llmVars

\* the handler's catch: whatever step threw, the answer is 500 with the
\* error's message
Catch(at) ==
    /\ pc' = "done"
    /\ thrown' = at
    /\ response' = ErrorResponse(500, "INTERNAL_ERROR", at)

\* the body cannot be read (req.json() rejects) or is no object (its
\* destructuring throws)
BodyFails(r) ==
    /\ pc = "idle"
    /\ route' = r
    /\ Catch("body")
    /\ UNCHANGED sideVars
    /\ UNCHANGED <<corpus, story, config, normalizedConfig, normalizedStory, storyEmbedding,
                   count, documents, relatedStories, phaseLog>>
    /\ UNCHANGED searchVars
    /\ UNCHANGED llmVars

\* a request without story: 400 before anything else runs
RejectMissingStory(r, s) ==
    /\ pc = "idle"
    /\ ~StoryGiven(s)
    /\ pc' = "done"
    /\ route' = r
    /\ story' = s
    /\ response' = ErrorResponse(400, "MISSING_STORY", "Story content is required")
    /\ UNCHANGED sideVars
    /\ UNCHANGED <<corpus, config, normalizedConfig, normalizedStory, storyEmbedding, count,
                   documents, relatedStories, thrown, phaseLog>>
    /\ UNCHANGED searchVars
    /\ UNCHANGED llmVars

\* a request with a story: weights rescaled, story normalized (to q),
\* embedQuery called
Receive(r, s, hasConfig, c, q) ==
    /\ pc = "idle"
    /\ StoryGiven(s)
    /\ pc' = "embed"
    /\ route' = r
    /\ story' = s
    /\ LET cfg == IF hasConfig THEN c
                  ELSE IF r = "three" THEN DEFAULT_CONFIG_POST ELSE DEFAULT_CONFIG_HANDLER
       IN  /\ config' = cfg
           /\ normalizedConfig' = IF r = "three" THEN NormalizeWeightsPOST(cfg)
                                  ELSE NormalizeWeightsHandler(cfg)
    /\ normalizedStory' = q
    /\ snapshots' = {corpus}
    /\ UNCHANGED <<ingest, ui, call>>
    /\ UNCHANGED <<corpus, storyEmbedding, count, documents, relatedStories, thrown,
                   phaseLog, response>>
    /\ UNCHANGED searchVars
    /\ UNCHANGED llmVars

\* mutant of Fail: the error of the failed step is swallowed and the request
\* is answered 200 with what there is
FailAbsorbed(at) ==
    /\ pc = at
    /\ pc' = "done"
    /\ thrown' = at
    /\ response' = [status |-> 200, ranked |-> relatedStories, errors |-> <<>>]
    /\ UNCHANGED sideVars
    /\ UNCHANGED <<corpus, storyEmbedding, count, documents, relatedStories, phaseLog>>
    /\ UNCHANGED requestVars
    /\ UNCHANGED searchVars
    /\ UNCHANGED llmVars

\* an await rejects: the handler's catch answers 500
Fail(at) ==
    /\ pc = at
    /\ Catch(at)
    /\ UNCHANGED sideVars
    /\ UNCHANGED <<corpus, storyEmbedding, count, documents, relatedStories, phaseLog>>
    /\ UNCHANGED requestVars
    /\ UNCHANGED searchVars
    /\ UNCHANGED llmVars

EmbedFails == Fail("embed")

ConnectFails == Fail("connect")

CountFails == Fail("count")

FindFails == Fail("find")

EmbedReturns(e) ==
    /\ pc = "embed"
    /\ pc' = "connect"
    /\ storyEmbedding' = e
    /\ UNCHANGED sideVars
    /\ UNCHANGED <<corpus, count, documents, relatedStories, thrown, phaseLog, response>>
    /\ UNCHANGED requestVars
    /\ UNCHANGED searchVars
    /\ UNCHANGED llmVars

\* clientPromise resolves; performHybridSearch starts and calls countDocuments
ConnectReturns ==
    /\ pc = "connect"
    /\ pc' = "count"
    /\ UNCHANGED sideVars
    /\ UNCHANGED <<corpus, storyEmbedding, count, documents, relatedStories, thrown,
                   phaseLog, response>>
    /\ UNCHANGED requestVars
    /\ UNCHANGED searchVars
    /\ UNCHANGED llmVars

\* what the handler does with the result of performHybridSearch up to its
\* next await: POST enters enhanceWithLLM, handler calls refineStory; events
\* are the steps performHybridSearch has just done
AfterSearch(related, events) ==
    IF route = "two"
    THEN /\ pc' = "refine"
         /\ phaseLog' = phaseLog \o events
         /\ UNCHANGED llmVars
    ELSE LET run == RunToAwait(related, 1, <<>>)
         IN  /\ llmIdx' = run.idx
             /\ judgeLog' = <<>>
             /\ phaseLog' = phaseLog \o events \o RerankEvents(<<>>, run.enhanced)
             /\ IF run.idx > Len(related)
                THEN /\ enhanced' = SortByFinal(run.enhanced)
                     /\ pc' = "quality"
                ELSE /\ enhanced' = run.enhanced
                     /\ pc' = "llm"

\* countDocuments answers: 0 returns the placeholder, otherwise find() is called
CountReturns ==
    /\ pc = "count"
    /\ count' = Len(corpus)
    /\ IF Len(corpus) = 0
       THEN /\ relatedStories' = DummyResults
            /\ AfterSearch(DummyResults, <<>>)
       ELSE /\ pc' = "find"
            /\ UNCHANGED <<relatedStories, phaseLog>>
            /\ UNCHANGED llmVars
    /\ UNCHANGED sideVars
    /\ UNCHANGED <<corpus, storyEmbedding, documents, thrown, response>>
    /\ UNCHANGED requestVars
    /\ UNCHANGED searchVars

\* find().toArray() answers: score, merge, normalize, fuse, sort, dedup, slice
FindReturns ==
    /\ pc = "find"
    /\ documents' = corpus
    /\ LET hs == HybridSearch(corpus, storyEmbedding, normalizedStory, normalizedConfig, route)
       IN  /\ knnResults' = hs.knnResults
           /\ textResults' = hs.textResults
           /\ merged' = hs.merged
           /\ normalizedResults' = hs.normalizedResults
           /\ relatedStories' = hs.result
           /\ AfterSearch(hs.result, SearchEvents(corpus, hs, route))
    /\ UNCHANGED sideVars
    /\ UNCHANGED <<corpus, storyEmbedding, count, thrown, response>>
    /\ UNCHANGED requestVars

\* one mistral.chat call of enhanceWithLLM settles; after the last candidate
\* the list is sorted and evaluateQualityDetailed is called
JudgeReturns(reply) ==
    /\ pc = "llm"
    /\ LET c == relatedStories[llmIdx]
           run == RunToAwait(relatedStories, llmIdx + 1,
                             Append(enhanced, EnhanceOne(c, reply, normalizedConfig)))
       IN  /\ llmIdx' = run.idx
           /\ judgeLog' = Append(judgeLog, [_id |-> c._id, reply |-> reply])
           /\ phaseLog' = phaseLog \o RerankEvents(enhanced, run.enhanced)
           /\ IF run.idx > Len(relatedStories)
              THEN /\ enhanced' = SortByFinal(run.enhanced)
                   /\ pc' = "quality"
              ELSE /\ enhanced' = run.enhanced
                   /\ pc' = "llm"
    /\ UNCHANGED sideVars
    /\ UNCHANGED <<corpus, storyEmbedding, count, documents, relatedStories, thrown, response>>
    /\ UNCHANGED requestVars
    /\ UNCHANGED searchVars

\* evaluateQualityDetailed settles (it catches its own failures); refineStory
\* is called
QualityReturns ==
    /\ pc = "quality"
    /\ pc' = "refine"
    /\ UNCHANGED sideVars
    /\ UNCHANGED <<corpus, storyEmbedding, count, documents, relatedStories, thrown,
                   phaseLog, response>>
    /\ UNCHANGED requestVars
    /\ UNCHANGED searchVars
    /\ UNCHANGED llmVars

\* refineStory settles (it catches its own failures); the handler answers 200,
\* POST with the enhanced list sliced once more
RefineReturns ==
    /\ pc = "refine"
    /\ pc' = "done"
    /\ phaseLog' = IF route = "three" THEN Append(phaseLog, Event("TRUNCATE", ""))
                   ELSE phaseLog
    /\ response' =
          [status |-> 200,
           ranked |-> IF route = "three"
                      THEN Slice(enhanced, OrElse(config.topK, Frac(DEFAULT_TOPK_POST, 1)))
                      ELSE relatedStories,
           errors |-> <<>>]
    /\ UNCHANGED sideVars
    /\ UNCHANGED <<corpus, storyEmbedding, count, documents, relatedStories, thrown>>
    /\ UNCHANGED requestVars
    /\ UNCHANGED searchVars
    /\ UNCHANGED llmVars

Routes == {"three", "two"}

Next ==
    \/ RejectMethod
    \/ \E r \in Routes : BodyFails(r)
    \/ \E r \in Routes, s \in StoryPool : RejectMissingStory(r, s)
    \/ \E r \in Routes, s \in StoryPool, hasConfig \in BOOLEAN, c \in ConfigPool,
          q \in QueryPool : Receive(r, s, hasConfig, c, q)
    \/ EmbedFails
    \/ \E e \in EmbeddingPool : EmbedReturns(e)
    \/ ConnectFails
    \/ ConnectReturns
    \/ CountFails
    \/ CountReturns
    \/ FindFails
    \/ FindReturns
    \/ \E reply \in JudgePool : JudgeReturns(reply)
    \/ QualityReturns
    \/ RefineReturns

Spec == Init /\ [][Next]_vars

\* ------------------------------------------------------ shared vocabulary
\* the request was accepted (a story was present)
Accepted == normalizedStory # <<>>

Succeeded == pc = "done" /\ response.status = 200

\* performHybridSearch has returned from its scan of a non-empty collection
ScanDone == count > 0 /\ (pc \in {"llm", "quality", "refine"} \/ Succeeded)

\* performHybridSearch has returned the placeholder
DummyDone == count = 0 /\ (pc \in {"llm", "quality", "refine"} \/ Succeeded)

\* enhanceWithLLM has returned
EnhanceDone == route = "three" /\ (pc \in {"quality", "refine"} \/ Succeeded)

StreamIds(stream) == {stream[i].doc._id : i \in DOMAIN stream}

IdsOf(list) == {list[i]._id : i \in DOMAIN list}

DistinctIds(list) == \A i, j \in DOMAIN list : i # j => list[i]._id # list[j]._id

InUnit(x) == IsFinite(x) /\ ~Less(x, Zero) /\ ~Less(One, x)

\* ------------------------------------------------------------------- C1
\* C1: after the merge there is exactly one candidate per distinct document
\* id of the vector stream or the lexical stream: as many candidates as ids in
\* the union, no id twice, each candidate carrying the score its stream gave
\* it and raw score 0 for a stream it is not in.
C1_MergeLossless ==
    ScanDone =>
        LET ids == StreamIds(knnResults) \cup StreamIds(textResults)
        IN  /\ Len(merged) = Cardinality(ids)
            /\ DistinctIds(merged)
            /\ IdsOf(merged) = ids
            /\ \A i \in DOMAIN merged :
                  /\ merged[i]._id \notin StreamIds(knnResults) => merged[i].vector_score = Zero
                  /\ merged[i]._id \notin StreamIds(textResults) => merged[i].bm25_score = Zero
                  /\ \A k \in DOMAIN knnResults :
                        knnResults[k].doc._id = merged[i]._id
                            => merged[i].vector_score = knnResults[k].score
                  /\ \A k \in DOMAIN textResults :
                        textResults[k].doc._id = merged[i]._id
                            => merged[i].bm25_score = textResults[k].score

\* a scan whose streams overlap and each hold a document the other lacks
C1_Witness ==
    /\ ScanDone
    /\ StreamIds(knnResults) \cap StreamIds(textResults) # {}
    /\ StreamIds(knnResults) \ StreamIds(textResults) # {}
    /\ StreamIds(textResults) \ StreamIds(knnResults) # {}

\* ------------------------------------------------------------------- C2
ScanIndex(id) == IndexOfId(documents, id)

\* C2: two candidates of the returned ranking with the same fused score are
\* in the order in which the scan listed their documents.
C2_TiesKeepScanOrder ==
    ScanDone =>
        \A i, j \in DOMAIN relatedStories :
            ( /\ i < j
              /\ IsFinite(relatedStories[i].hybrid_score)
              /\ relatedStories[i].hybrid_score = relatedStories[j].hybrid_score )
                => ScanIndex(relatedStories[i]._id) < ScanIndex(relatedStories[j]._id)

SuppliedWeights ==
    IF route = "three"
    THEN <<config.vectorWeight, config.bm25Weight, config.hybridWeight>>
    ELSE <<config.vectorWeight, config.bm25Weight>>

UsedWeights ==
    IF route = "three"
    THEN <<normalizedConfig.vectorWeight, normalizedConfig.bm25Weight,
           normalizedConfig.hybridWeight>>
    ELSE <<normalizedConfig.vectorWeight, normalizedConfig.bm25Weight>>

RECURSIVE SumSeq(_)
SumSeq(s) == IF s = <<>> THEN Zero ELSE Add(s[1], SumSeq(Tail(s)))

AllSupplied == \A i \in DOMAIN SuppliedWeights : SuppliedWeights[i] # Undefined

C5_ZeroSumEqualWeights ==
    ( /\ Accepted
      /\ AllSupplied
      /\ SumSeq(SuppliedWeights) = Zero )
        => /\ \A i, j \in DOMAIN UsedWeights :
                 IsFinite(UsedWeights[i]) /\ UsedWeights[i] = UsedWeights[j]
           /\ SumSeq(UsedWeights) = One

\* ------------------------------------------------------------------- C6
\* least and greatest element of a non-empty set of numbers
LeastOf(S) == CHOOSE m \in S : \A x \in S : ~Less(x, m)

GreatestOf(S) == CHOOSE m \in S : \A x \in S : ~Less(m, x)

VectorBatch == {normalizedResults[i].vector_score : i \in DOMAIN normalizedResults}

LexicalBatch == {normalizedResults[i].bm25_score : i \in DOMAIN normalizedResults}

\* norm is the min-max rescaling of score within the batch
IsMinMaxOf(norm, score, batch) ==
    LET lo == LeastOf(batch)
        hi == GreatestOf(batch)
    IN  /\ InUnit(norm)
        /\ IF hi = lo THEN norm = One
           ELSE Mul(norm, Sub(hi, lo)) = Sub(score, lo)

\* C6: in a non-empty batch every normalized score of each signal lies in
\* [0,1] and equals (score - min)/(max - min) over the batch's raw scores, and
\* is 1 for every candidate when the batch's max equals its min.
C6_MinMaxNormalized ==
    (ScanDone /\ normalizedResults # <<>>) =>
        \A i \in DOMAIN normalizedResults :
            /\ IsMinMaxOf(normalizedResults[i].vector_score_norm,
                          normalizedResults[i].vector_score, VectorBatch)
            /\ IsMinMaxOf(normalizedResults[i].bm25_score_norm,
                          normalizedResults[i].bm25_score, LexicalBatch)

\* a batch with a vector score strictly inside (0,1)
C6_Witness ==
    /\ ScanDone
    /\ \E i \in DOMAIN normalizedResults :
          /\ Less(Zero, normalizedResults[i].vector_score_norm)
          /\ Less(normalizedResults[i].vector_score_norm, One)

\* ------------------------------------------------------------------- C7
FirstOccurrence(list, i) == \A j \in 1..(i - 1) : list[j]._id # list[i]._id

NeverIncreasing(list, Key(_)) ==
    \A i, j \in DOMAIN list : i < j => ~Less(Key(list[i]), Key(list[j]))

HybridOf(c) == c.hybrid_score

FinalOf(c) == c.hybrid_score_final

\* C7: after fusion every candidate's fused score is wv*normVector +
\* wl*normLexical with the weights in use, the provisional ranking never
\* rises in fused score, holds no document id twice, and is made of the
\* first occurrence of each id in the sorted list, cut to topK.
C7_FusedAndRanked ==
    ScanDone =>
        /\ \A i \in DOMAIN normalizedResults :
              normalizedResults[i].hybrid_score =
                  Add(Mul(normalizedConfig.vectorWeight, normalizedResults[i].vector_score_norm),
                      Mul(normalizedConfig.bm25Weight, normalizedResults[i].bm25_score_norm))
        /\ IdsOf(normalizedResults) = IdsOf(merged)
        /\ NeverIncreasing(normalizedResults, HybridOf)
        /\ NeverIncreasing(relatedStories, HybridOf)
        /\ DistinctIds(relatedStories)
        /\ \A k \in DOMAIN relatedStories :
              \E i \in DOMAIN normalizedResults :
                  /\ normalizedResults[i] = relatedStories[k]
                  /\ FirstOccurrence(normalizedResults, i)
        /\ Len(relatedStories) =
              IF normalizedConfig.topK = Undefined THEN Cardinality(IdsOf(normalizedResults))
              ELSE Min2(normalizedConfig.topK[1], Cardinality(IdsOf(normalizedResults)))

\* the sort moved a candidate: the ranking is not in merge order, and it
\* holds two candidates of different fused score
C7_Witness ==
    /\ ScanDone
    /\ Len(relatedStories) >= 2
    /\ \E i, j \in DOMAIN relatedStories :
          i < j /\ Less(relatedStories[j].hybrid_score, relatedStories[i].hybrid_score)
    /\ merged[1]._id # normalizedResults[1]._id

\* ------------------------------------------------------------------- C8
\* C8: in the three-signal route every candidate's fused score is in [0,1],
\* the provisional one after fusion and the final one after re-ranking.
C8_FusedInUnitInterval ==
    (route = "three" /\ Accepted) =>
        /\ \A i \in DOMAIN relatedStories : InUnit(relatedStories[i].hybrid_score)
        /\ \A i \in DOMAIN enhanced : InUnit(enhanced[i].hybrid_score_final)

\* ------------------------------------------------------------------- C9
ProvisionalRank(id) == IndexOfId(relatedStories, id)

\* C9: every candidate whose judge call was answered has final score
\* wv*normVector + wl*normLexical + ws*semanticScore with the three weights in
\* use, its semantic score being the one parsed from the answer; once all
\* candidates are processed the list never rises in final score and
\* candidates of equal final score are in provisional order.
C9_FinalScoreAndOrder ==
    route = "three" =>
        /\ \A k \in DOMAIN judgeLog :
              judgeLog[k].reply.kind # "throw" =>
                  \E i \in DOMAIN enhanced :
                      /\ enhanced[i]._id = judgeLog[k]._id
                      /\ judgeLog[k].reply.kind = "json" /\ Truthy(judgeLog[k].reply.score)
                            => enhanced[i].llm_score = judgeLog[k].reply.score
                      /\ enhanced[i].hybrid_score_final =
                            Add(Add(Mul(normalizedConfig.vectorWeight,
                                        enhanced[i].vector_score_norm),
                                    Mul(normalizedConfig.bm25Weight,
                                        enhanced[i].bm25_score_norm)),
                                Mul(normalizedConfig.hybridWeight, enhanced[i].llm_score))
        /\ EnhanceDone =>
              /\ NeverIncreasing(enhanced, FinalOf)
              /\ \A i, j \in DOMAIN enhanced :
                    (i < j /\ enhanced[i].hybrid_score_final = enhanced[j].hybrid_score_final)
                        => ProvisionalRank(enhanced[i]._id) < ProvisionalRank(enhanced[j]._id)

\* re-ranking moved an answered candidate ahead of one that was ranked above it
C9_Witness ==
    /\ EnhanceDone
    /\ \E k \in DOMAIN judgeLog : judgeLog[k].reply.kind = "json"
    /\ \E i, j \in DOMAIN enhanced :
          /\ i < j
          /\ ProvisionalRank(enhanced[i]._id) > ProvisionalRank(enhanced[j]._id)
          /\ enhanced[i].llm_reason # "LLM failed"

\* re-ranking left two candidates with the same non-zero final score
C9_TieReached ==
    /\ EnhanceDone
    /\ \E i, j \in DOMAIN enhanced :
          /\ i < j
          /\ enhanced[i].hybrid_score_final = enhanced[j].hybrid_score_final
          /\ Less(Zero, enhanced[i].hybrid_score_final)

\* ------------------------------------------------------------------ C10
\* the candidates whose semantic signal failed: the call rejected, the answer
\* did not parse, or the content could not be excerpted and no call was made
FailedIds ==
    {judgeLog[k]._id : k \in {n \in DOMAIN judgeLog : judgeLog[n].reply.kind \in {"throw", "badjson"}}}
        \cup {relatedStories[i]._id : i \in {n \in DOMAIN relatedStories : ~relatedStories[n].isStr}}

\* C10: whatever the judge does, enhanceWithLLM returns exactly the
\* candidates it was given, each once; a candidate whose call failed or whose
\* answer was malformed has semantic score 0 and its provisional fused score
\* as final score; every other candidate has the final score of its own
\* answer.
C10_FailureIsolation ==
    EnhanceDone =>
        /\ Len(enhanced) = Len(relatedStories)
        /\ IdsOf(enhanced) = IdsOf(relatedStories)
        /\ DistinctIds(enhanced)
        /\ \A i \in DOMAIN enhanced :
              LET c == relatedStories[ProvisionalRank(enhanced[i]._id)]
              IN  /\ enhanced[i].hybrid_score = c.hybrid_score
                  /\ enhanced[i]._id \in FailedIds =>
                        /\ enhanced[i].llm_score = Zero
                        /\ enhanced[i].hybrid_score_final = c.hybrid_score
                  /\ \A k \in DOMAIN judgeLog :
                        ( /\ judgeLog[k]._id = enhanced[i]._id
                          /\ judgeLog[k].reply.kind = "json" )
                            => enhanced[i].hybrid_score_final =
                                  Add(c.hybrid_score,
                                      Mul(normalizedConfig.hybridWeight, judgeLog[k].reply.score))

\* a batch in which one call rejected, one answer was malformed and one
\* answer carried a score
C10_Witness ==
    /\ EnhanceDone
    /\ \E k \in DOMAIN judgeLog : judgeLog[k].reply.kind = "throw"
    /\ \E k \in DOMAIN judgeLog : judgeLog[k].reply.kind = "badjson"
    /\ \E k \in DOMAIN judgeLog : judgeLog[k].reply.kind = "json"
    /\ \E i \in DOMAIN enhanced : Less(Zero, enhanced[i].hybrid_score)

\* ------------------------------------------------------------------ C11
\* the ids of a list, in list order
IdSeq(list) == [i \in DOMAIN list |-> list[i]._id]

\* enhanceWithLLM called the judge at least once and every call rejected
JudgeAlwaysErrored ==
    /\ judgeLog # <<>>
    /\ \A k \in DOMAIN judgeLog : judgeLog[k].reply.kind = "throw"

\* C11: when every call of the judge rejected, enhanceWithLLM returns the
\* candidates of the provisional ranking in the provisional order, each with
\* the 'LLM failed' reason, semantic score 0 and its provisional score as final
\* score; the request is answered 200 with no errors, and for a request whose
\* topK is set the ranked list of the response is that same list.
C11_JudgeDownKeepsProvisional ==
    (EnhanceDone /\ JudgeAlwaysErrored) =>
        /\ IdSeq(enhanced) = IdSeq(relatedStories)
        /\ \A i \in DOMAIN enhanced :
              /\ enhanced[i].llm_reason = "LLM failed"
              /\ enhanced[i].llm_score = Zero
              /\ enhanced[i].hybrid_score_final = relatedStories[i].hybrid_score
        /\ pc = "done" =>
              /\ response.status = 200
              /\ response.errors = <<>>
              /\ config.topK # Undefined => response.ranked = enhanced

\* a request answered after the judge rejected the calls for at least two
\* candidates of different provisional score
C11_Witness ==
    /\ Succeeded
    /\ JudgeAlwaysErrored
    /\ Len(judgeLog) >= 2
    /\ Len(response.ranked) >= 2
    /\ Less(response.ranked[2].hybrid_score, response.ranked[1].hybrid_score)

\* ------------------------------------------------ judge answers in detail
\* A second specification for the parsing of the judge's answers: the same
\* handler over collections of at most MaxJudged documents, the judge drawing
\* its answers from a wider pool.
WideJudgePool ==
    JudgePool \cup
    { Reply("text", Undefined, <<>>),
      Reply("text", Undefined, <<"x">>),
      Reply("text", Undefined, <<"x", " ", "0", ".", "7">>),
      Reply("text", Undefined, <<"2", " ", "0", ".", "5">>),
      Reply("text", Undefined, <<"1", ".", "0", "0">>),
      Reply("text", Undefined, <<"1", "0">>),
      Reply("text", Undefined, <<"x", " ", "1", ".", "5">>),
      Reply("json", Frac(1, 2), <<"0", ".", "2", " ", "{", "K", "0", ".", "5", "}">>),
      Reply("json", Frac(0, 1), <<"{", " ", "K", " ", "0", " ", "}", " ", "1">>),
      Reply("json", Undefined, <<"{", "}">>),
      Reply("badjson", Undefined, <<"{", "x", "}", " ", "0", ".", "7">>),
      Reply("badjson", Undefined, <<"{", "K", "0", "5", "}">>) }

JudgeInit == Init /\ Len(corpus) <= MaxJudged

JudgeNext ==
    \/ RejectMethod
    \/ \E r \in Routes : BodyFails(r)
    \/ \E r \in Routes, s \in StoryPool : RejectMissingStory(r, s)
    \/ \E r \in Routes, s \in StoryPool, hasConfig \in BOOLEAN, c \in ConfigPool,
          q \in QueryPool : Receive(r, s, hasConfig, c, q)
    \/ EmbedFails
    \/ \E e \in EmbeddingPool : EmbedReturns(e)
    \/ ConnectFails
    \/ ConnectReturns
    \/ CountFails
    \/ CountReturns
    \/ FindFails
    \/ FindReturns
    \/ \E reply \in WideJudgePool : JudgeReturns(reply)
    \/ QualityReturns
    \/ RefineReturns

JudgeSpec == JudgeInit /\ [][JudgeNext]_vars

\* ------------------------------------------------------------------ C12
\* the candidate of the k-th call of the judge, as enhanceWithLLM pushed it
JudgedEntry(k) == enhanced[CHOOSE i \in DOMAIN enhanced : enhanced[i]._id = judgeLog[k]._id]

\* C12: whatever a call of the judge returned, its candidate is pushed to the
\* result list and the candidate's semantic score is a number in [0,1].
C12_SemanticScoreInUnit ==
    \A k \in DOMAIN judgeLog :
        /\ judgeLog[k]._id \in IdsOf(enhanced)
        /\ InUnit(JudgedEntry(k).llm_score)

\* ------------------------------------------------------------------ C13
IsNumberChar(ch) == IsDigit(ch) \/ ch = "."

\* the numbers written in a text, in text order: the longest runs of digits
\* and points that are digits with at most one point inside
NumbersOf(text) ==
    LET starts == {i \in DOMAIN text :
                      IsNumberChar(text[i]) /\ (i = 1 \/ ~IsNumberChar(text[i - 1]))}
        token(i) == SubSeq(text, i, RunEnd(text, i, IsNumberChar))
        wellFormed(t) ==
            /\ IsDigit(t[1]) /\ IsDigit(t[Len(t)])
            /\ Cardinality({k \in DOMAIN t : t[k] = "."}) <= 1
    IN  [i \in {n \in starts : wellFormed(token(n))} |-> DecimalValue(token(i))]

\* the first number of the text that lies in [0,1], 0 when there is none
FirstUnitNumber(text) ==
    LET numbers == NumbersOf(text)
        inUnit  == {i \in DOMAIN numbers : InUnit(numbers[i])}
    IN  IF inUnit = {} THEN Zero
        ELSE numbers[CHOOSE i \in inUnit : \A j \in inUnit : i <= j]

\* C13: a candidate whose answer was plain text has as semantic score the
\* first number in [0,1] written in the text, 0 when the text has none; a
\* candidate whose answer held a JSON object with a score has that score,
\* whatever other numbers the answer contains.
C13_TextFallbackFirstUnitNumber ==
    \A k \in DOMAIN judgeLog :
        LET reply == judgeLog[k].reply
        IN  /\ reply.kind = "text" =>
                  JudgedEntry(k).llm_score = FirstUnitNumber(reply.content)
            /\ (reply.kind = "json" /\ reply.score # Undefined) =>
                  JudgedEntry(k).llm_score = reply.score

\* ------------------------------------------------------------------ C14
\* the request's topK as an integer
TopK == config.topK[1]

\* C14: a request with topK >= 1 over a collection that yields N candidates is
\* answered with min(topK, N) results, which are the first min(topK, N)
\* candidates of the provisional ranking, so that no candidate left out has a
\* higher fused score than one returned; without re-ranking (handler) they
\* are returned in the provisional order.
C14_TopKHighest ==
    (Succeeded /\ count > 0 /\ config.topK # Undefined /\ Less(Zero, config.topK)) =>
        LET n == Min2(TopK, Len(merged))
        IN  /\ Len(response.ranked) = n
            /\ IdsOf(response.ranked) = IdsOf(SubSeq(normalizedResults, 1, n))
            /\ \A i \in DOMAIN response.ranked, j \in (n + 1)..Len(normalizedResults) :
                  ~Less(response.ranked[i].hybrid_score, normalizedResults[j].hybrid_score)
            /\ route = "two" => IdSeq(response.ranked) = IdSeq(SubSeq(normalizedResults, 1, n))

\* three candidates, topK 2: the one left out has a lower fused score than
\* both results
C14_Witness ==
    /\ Succeeded
    /\ config.topK = Frac(2, 1)
    /\ Len(merged) = 3
    /\ Len(response.ranked) = 2
    /\ Less(normalizedResults[3].hybrid_score, normalizedResults[2].hybrid_score)

\* ------------------------------------------------------------------ C15
\* the handler has read a body whose story is missing or empty
StoryMissing ==
    /\ pc # "idle"
    /\ thrown # "body"
    /\ response.status # 405
    /\ ~story.given \/ story.text = <<>>

\* C15: a request whose story is missing or empty is answered at once with
\* status 400, the one error MISSING_STORY and an empty ranked list, and no
\* step of the pipeline has run: no query embedding, no collection read, no
\* result of the search and no call of the judge.
C15_MissingStoryRejected ==
    StoryMissing =>
        /\ pc = "done"
        /\ response.status = 400
        /\ Len(response.errors) = 1
        /\ response.errors[1].code = "MISSING_STORY"
        /\ response.ranked = <<>>
        /\ normalizedStory = <<>>
        /\ storyEmbedding = <<>>
        /\ count = -1
        /\ documents = <<>>
        /\ relatedStories = <<>>
        /\ enhanced = <<>>
        /\ judgeLog = <<>>
        /\ phaseLog = <<>>

\* a request with the empty string as story, over a collection that has
\* documents, has been answered
C15_Witness ==
    /\ pc = "done"
    /\ story = Story(TRUE, <<>>)
    /\ corpus # <<>>
    /\ response.status = 400

\* ------------------------------------------------------------------ C16
CorpusSteps == {"connect", "count", "find"}

\* C16: when connecting to the database, counting the collection or listing
\* it throws, the handler is done with status 500 and exactly one error, which
\* has the code INTERNAL_ERROR and the message of what was thrown; the ranked
\* list is empty, and nothing after the failed step has run: no search result,
\* no call of the judge, no candidate enhanced, no step logged.
C16_CorpusFailureIsFatal ==
    thrown \in CorpusSteps =>
        /\ pc = "done"
        /\ response.status = 500
        /\ Len(response.errors) = 1
        /\ response.errors[1].code = "INTERNAL_ERROR"
        /\ response.errors[1].message = thrown
        /\ response.ranked = <<>>
        /\ relatedStories = <<>>
        /\ enhanced = <<>>
        /\ judgeLog = <<>>
        /\ phaseLog = <<>>

\* listing a collection that has documents failed and the request was answered
C16_Witness ==
    /\ thrown = "find"
    /\ count > 0
    /\ storyEmbedding # <<>>
    /\ response.status = 500

\* ------------------------------------------------------------------ C17
\* the request was a POST and the handler has answered it with an error
QueryFailed == pc = "done" /\ response.errors # <<>> /\ response.status # 405

\* performHybridSearch has returned: it found the collection empty or has
\* listed and ranked its documents
SearchReturned == count = 0 \/ documents # <<>>

C17_EmbedFailureReached == QueryFailed /\ thrown = "embed"

\* ------------------------------------------------------------------ C18
\* the place of a step in the order SCORE_VECTOR, SCORE_LEXICAL,
\* MERGE_NORMALIZE, FUSE_RANK, SEMANTIC_RERANK, TRUNCATE
PhaseRank(phase) ==
    CASE phase = "SCORE_VECTOR" -> 1
      [] phase = "SCORE_LEXICAL" -> 2
      [] phase \in {"MERGE", "NORMALIZE"} -> 3
      [] phase \in {"FUSE", "RANK"} -> 4
      [] phase = "SEMANTIC_RERANK" -> 5
      [] phase = "TRUNCATE" -> 6

\* C18: the steps of one request run in the order of the phases, a phase
\* being over for all documents and candidates before a step of a later phase
\* runs: no step is followed by a step of an earlier phase; in particular no
\* vector score is computed after a lexical score and no candidate is judged
\* after the list was truncated.
C18_PhasesInOrder ==
    \A i, j \in DOMAIN phaseLog :
        i < j => PhaseRank(phaseLog[i].phase) <= PhaseRank(phaseLog[j].phase)

\* what does hold of the run order over a collection that has documents:
\* every document is scored before anything
\* is merged, a candidate is normalized right before it is fused, the list is
\* ranked and truncated once in performHybridSearch before the first candidate
\* is judged, and POST truncates once more after the last one
RunOrderOfTheCode ==
    LET At(phases) == {i \in DOMAIN phaseLog : phaseLog[i].phase \in phases}
        Before(A, B) == \A i \in At(A), j \in At(B) : i < j
    IN  count > 0 =>
        /\ Before({"SCORE_VECTOR", "SCORE_LEXICAL"}, {"MERGE"})
        /\ Before({"MERGE"}, {"NORMALIZE", "FUSE"})
        /\ Before({"NORMALIZE", "FUSE"}, {"RANK"})
        /\ Before({"RANK"}, {"TRUNCATE"})
        /\ \A j \in At({"SEMANTIC_RERANK"}) : \E i \in At({"TRUNCATE"}) : i < j
        /\ Cardinality(At({"TRUNCATE"})) <= 2

\* ------------------------------------------------------------------ C19
\* every step of the handler but the answer of the judge
OtherSteps ==
    \/ RejectMethod
    \/ \E r \in Routes : BodyFails(r)
    \/ \E r \in Routes, s \in StoryPool : RejectMissingStory(r, s)
    \/ \E r \in Routes, s \in StoryPool, hasConfig \in BOOLEAN, c \in ConfigPool,
          q \in QueryPool : Receive(r, s, hasConfig, c, q)
    \/ EmbedFails
    \/ \E e \in EmbeddingPool : EmbedReturns(e)
    \/ ConnectFails
    \/ ConnectReturns
    \/ CountFails
    \/ CountReturns
    \/ FindFails
    \/ FindReturns
    \/ QualityReturns
    \/ RefineReturns

\* The handler under the scheduling the claim supposes: every awaited call
\* settles and its continuation runs, except that a call of the judge need
\* not return.  The code arms no timer for mistral.chat, so no step of the
\* handler stands for one.
FairSpec == Init /\ [][Next]_vars /\ WF_vars(OtherSteps)

\* C19: every request the handler has started on is answered in the end,
\* also when a call of the judge never returns.
C19_QueryTerminates == (pc # "idle") ~> (pc = "done")

\* ------------------------------------------------------------------ C21
\* the request supplied every weight of its route, all equal and positive
EqualWeights ==
    /\ Accepted
    /\ AllSupplied
    /\ \A i \in DOMAIN SuppliedWeights : SuppliedWeights[i] = SuppliedWeights[1]
    /\ Less(Zero, SuppliedWeights[1])

MeanOf(s) == Div(SumSeq(s), Frac(Len(s), 1))

\* C21: under equal positive weights the fused score of a candidate is the
\* plain mean of its available normalized signals: of the vector, lexical and
\* semantic score when its judge call succeeded, of the vector and lexical
\* score when there is no semantic signal (handler) or it failed.
C21_EqualWeightsGiveMean ==
    EqualWeights =>
        /\ route = "two" =>
              \A i \in DOMAIN normalizedResults :
                  LET c == normalizedResults[i]
                  IN  c.hybrid_score = MeanOf(<<c.vector_score_norm, c.bm25_score_norm>>)
        /\ route = "three" =>
              \A i \in DOMAIN enhanced :
                  LET c == enhanced[i]
                  IN  c.hybrid_score_final =
                         IF c._id \in FailedIds
                         THEN MeanOf(<<c.vector_score_norm, c.bm25_score_norm>>)
                         ELSE MeanOf(<<c.vector_score_norm, c.bm25_score_norm, c.llm_score>>)

\* ------------------------------------------------------------------ C22
\* C22: every candidate of the normalized list has a vector and a lexical
\* normalized score that are numbers, and a candidate that is not in the
\* vector stream (its document has no embedding) has normalized vector score
\* 0, one that is not in the lexical stream normalized lexical score 0,
\* whatever the scores of the other candidates are.
C22_MissingSignalNormalizedZero ==
    \A i \in DOMAIN normalizedResults :
        LET c == normalizedResults[i]
        IN  /\ c.vector_score_norm # Undefined /\ IsFinite(c.vector_score_norm)
            /\ c.bm25_score_norm # Undefined /\ IsFinite(c.bm25_score_norm)
            /\ c._id \notin StreamIds(knnResults) => c.vector_score_norm = Zero
            /\ c._id \notin StreamIds(textResults) => c.bm25_score_norm = Zero

\* ------------------------------------------------------- the ingest handler
\* bound: POST requests to /api/ingest in one run
MaxRequests == 2

queryVars == <<pc, storyEmbedding, count, documents, relatedStories, thrown, phaseLog,
               response>>

\* the states of the collection a query in flight has lived through
Lived(store) == IF pc \in {"idle", "done"} THEN snapshots ELSE snapshots \cup {store}

IngestUnchanged ==
    /\ UNCHANGED <<ui, call>>
    /\ UNCHANGED queryVars
    /\ UNCHANGED requestVars
    /\ UNCHANGED searchVars
    /\ UNCHANGED llmVars

\* handler: a POST arrives; connectToMongo is called
IngestReceive(batch) ==
    /\ ingest.pc \in {"idle", "done"}
    /\ ingest.requests < MaxRequests
    /\ ingest' = [ingest EXCEPT !.pc = "connect", !.stories = batch, !.idx = 1,
                                !.embedding = Null, !.results = <<>>, !.status = 0,
                                !.requests = @ + 1, !.before = corpus]
    /\ UNCHANGED <<corpus, snapshots>>
    /\ IngestUnchanged

\* catch block: the request is answered 500; what was written stays written
IngestFails ==
    /\ ingest.pc \in {"connect", "upsert"}
    /\ ingest' = [ingest EXCEPT !.pc = "done", !.status = 500]
    /\ UNCHANGED <<corpus, snapshots>>
    /\ IngestUnchanged

\* connectToMongo resolves; the loop calls mistral.embeddings for the first story
IngestConnectReturns ==
    /\ ingest.pc = "connect"
    /\ ingest' = [ingest EXCEPT !.pc = "embed"]
    /\ UNCHANGED <<corpus, snapshots>>
    /\ IngestUnchanged

\* mistral.embeddings settles (a failure is caught and gives null); updateOne
\* is called
IngestEmbedReturns(e) ==
    /\ ingest.pc = "embed"
    /\ ingest' = [ingest EXCEPT !.pc = "upsert", !.embedding = e]
    /\ UNCHANGED <<corpus, snapshots>>
    /\ IngestUnchanged

\* updateOne resolves: the write is done; the loop goes on to the next story
\* or the request is answered 200
IngestUpsertReturns ==
    /\ ingest.pc = "upsert"
    /\ LET s == ingest.stories[ingest.idx]
           isNew == IndexOfContent(corpus, s.content) = 0
           store == Upsert(corpus, s, ingest.embedding, NewId(ingest.inserted + 1))
           last == ingest.idx = Len(ingest.stories)
       IN  /\ corpus' = store
           /\ snapshots' = Lived(store)
           /\ ingest' = [ingest EXCEPT
                            !.pc = IF last THEN "done" ELSE "embed",
                            !.status = IF last THEN 200 ELSE 0,
                            !.idx = @ + 1,
                            !.results = Append(@, [content |-> s.content,
                                                   embedding |-> ingest.embedding,
                                                   matchedCount |-> IF isNew THEN 0 ELSE 1]),
                            !.inserted = IF isNew THEN @ + 1 ELSE @]
    /\ IngestUnchanged

IngestSteps ==
    \/ \E batch \in BatchPool : IngestReceive(batch)
    \/ IngestFails
    \/ IngestConnectReturns
    \/ \E e \in StoryEmbeddingPool : IngestEmbedReturns(e)
    \/ IngestUpsertReturns

\* a query with the default configuration, its judge down
QuerySteps ==
    \/ \E r \in Routes, q \in QueryPool :
          Receive(r, Story(TRUE, <<"a", " ", "B">>), FALSE, DEFAULT_CONFIG_POST, q)
    \/ EmbedReturns(<<1, 0>>)
    \/ ConnectReturns
    \/ CountReturns
    \/ FindReturns
    \/ JudgeReturns(Reply("throw", Undefined, <<>>))
    \/ QualityReturns
    \/ RefineReturns

\* the collection when the run starts: empty, or holding one story
StoredPool == {<<>>, <<Doc("d1", <<"a", " ", "b", ".">>, TRUE, TRUE, <<1, 0>>)>>}

IngestInit == Init /\ corpus \in StoredPool

\* bound: ingest requests that run beside the query
MaxBeside == 1

IngestNext ==
    \/ QuerySteps
    \/ ingest.requests < MaxBeside /\ \E batch \in BatchPool : IngestReceive(batch)
    \/ IngestFails
    \/ IngestConnectReturns
    \/ \E e \in StoryEmbeddingPool : IngestEmbedReturns(e)
    \/ IngestUpsertReturns

\* queries and ingest requests share the collection
IngestSpec == IngestInit /\ [][IngestNext]_vars

\* ingest requests one after the other, no query beside them
StoreSpec == IngestInit /\ [][IngestSteps]_vars

\* the ingest has run to its answer
IngestDone == ingest.pc = "done"

\* ------------------------------------------------------------------ C23
\* performHybridSearch has returned its list
Searched == pc \in {"llm", "quality", "refine", "done"} /\ thrown = "" /\ count >= 0

\* what performHybridSearch returns for the query in flight when the
\* collection is in state s all along
OutcomeFor(s) ==
    IF Len(s) = 0 THEN DummyResults
    ELSE HybridSearch(s, storyEmbedding, normalizedStory, normalizedConfig, route).result

WithContent(store, content) ==
    {i \in DOMAIN store : store[i].isStr /\ store[i].content = content}

\* the last story of the batch with the content of story k
LastWithContent(stories, k) ==
    CHOOSE i \in DOMAIN stories :
        /\ stories[i].content = stories[k].content
        /\ \A j \in DOMAIN stories : stories[j].content = stories[k].content => j <= i

\* an ingest request has been answered 200
IngestSucceeded == IngestDone /\ ingest.status = 200

\* every story of the batch was in the collection when the request arrived
AllStored ==
    \A k \in DOMAIN ingest.stories : WithContent(ingest.before, ingest.stories[k].content) # {}

\* C29: ingestion upserts by content. The collection never holds two documents
\* with the same content; after a successful request every story of the batch
\* is stored once, with the metadata and the embedding the request computed
\* for it last; and a request all of whose stories were already stored leaves
\* the collection with the same documents, in the same places, as before.
C29_UpsertByContent ==
    /\ \A i, j \in DOMAIN corpus :
          (i # j /\ corpus[i].isStr /\ corpus[j].isStr) => corpus[i].content # corpus[j].content
    /\ IngestSucceeded =>
          \A k \in DOMAIN ingest.stories :
              LET hits == WithContent(corpus, ingest.stories[k].content)
                  last == LastWithContent(ingest.stories, k)
              IN  /\ Cardinality(hits) = 1
                  /\ \A i \in hits :
                        /\ corpus[i].metadata = ingest.stories[last].metadata
                        /\ corpus[i].embedding = ingest.results[last].embedding
                        /\ corpus[i].hasEmb = (ingest.results[last].embedding # Null)
    /\ (IngestSucceeded /\ AllStored) =>
          /\ Len(corpus) = Len(ingest.before)
          /\ \A i \in DOMAIN corpus :
                /\ corpus[i]._id = ingest.before[i]._id
                /\ corpus[i].content = ingest.before[i].content

\* a second request re-ingests stored content with other metadata and without
\* an embedding
C29_Witness ==
    /\ IngestSucceeded
    /\ AllStored
    /\ ingest.requests = 2
    /\ \E i \in DOMAIN corpus :
          /\ corpus[i].metadata # ingest.before[i].metadata
          /\ ingest.before[i].hasEmb
          /\ ~corpus[i].hasEmb

\* -------------------------------------------------- CSVIngestControl steps
\* bound: files the user selects in one run
MaxSelections == 3

\* bound: uploads the user starts in one run
MaxUploads == 2

UiUnchanged ==
    /\ UNCHANGED <<corpus, snapshots, ingest, call>>
    /\ UNCHANGED queryVars
    /\ UNCHANGED requestVars
    /\ UNCHANGED searchVars
    /\ UNCHANGED llmVars

\* handleFile(null): the dialog is closed without a file
SelectNothing ==
    /\ ui.selections < MaxSelections
    /\ ui' = [ui EXCEPT !.status = NoStatus, !.selections = @ + 1]
    /\ UiUnchanged

\* handleFile(file): a name without .csv is refused; otherwise the name is
\* shown at once and a FileReader starts to read the file
SelectFile(file) ==
    /\ ui.selections < MaxSelections
    /\ ui' = IF ~file.csv
             THEN [ui EXCEPT !.status = "error", !.selections = @ + 1]
             ELSE [ui EXCEPT !.status = NoStatus, !.fileName = file.name,
                             !.reads = @ \cup {file}, !.selections = @ + 1]
    /\ UiUnchanged

\* reader.onload: the text is parsed; count and payload are those of this file
ReadLoads(file) ==
    /\ file \in ui.reads
    /\ ui' = [ui EXCEPT !.reads = @ \ {file},
                        !.parsedCount = file.stories,
                        !.storiesPayload = Payload(file),
                        !.status = IF file.stories = 0 THEN "error" ELSE @]
    /\ UiUnchanged

\* reader.onerror: only the status changes
ReadErrors(file) ==
    /\ file \in ui.reads
    /\ ui' = [ui EXCEPT !.reads = @ \ {file}, !.status = "error"]
    /\ UiUnchanged

\* the button is enabled and clicked: upload() refuses a payload that is null
\* or empty and otherwise posts storiesPayload to /api/ingest
ClickUpload ==
    /\ ~ui.isUploading
    /\ ui.fileName # ""
    /\ Len(ui.uploads) < MaxUploads
    /\ ui' = IF ui.storiesPayload.length <= 0
             THEN [ui EXCEPT !.status = "error"]
             ELSE [ui EXCEPT !.status = NoStatus, !.isUploading = TRUE,
                             !.uploads = Append(@, [fileName |-> ui.fileName,
                                                    from |-> ui.storiesPayload.from])]
    /\ UiUnchanged

\* the fetch settles: result.ok, or a refusal or a rejected fetch
UploadSettles(ok) ==
    /\ ui.isUploading
    /\ ui' = [ui EXCEPT !.isUploading = FALSE,
                        !.status = IF ok THEN "success" ELSE "error"]
    /\ UiUnchanged

UiInit == Init /\ corpus = <<>>

UiNext ==
    \/ SelectNothing
    \/ \E file \in FilePool : SelectFile(file)
    \/ \E file \in FilePool : ReadLoads(file)
    \/ \E file \in FilePool : ReadErrors(file)
    \/ ClickUpload
    \/ \E ok \in BOOLEAN : UploadSettles(ok)

\* the component alone, driven by the user, the file readers and the fetch
UiSpec == UiInit /\ [][UiNext]_vars

\* ------------------------------------------------------------------ C30
\* C30: every upload sends the stories parsed from the file whose name the
\* component showed when the upload was started.
C30_UploadsDisplayedFile ==
    \A i \in DOMAIN ui.uploads : ui.uploads[i].from = ui.uploads[i].fileName

\* ------------------------------------------------------------ RadialScore
\* Math.floor of a finite number, as an integer
Floor(x) == x[1] \div x[2]

\* Math.round: the integer nearest to x, a tie going up; NaN and the
\* infinities are returned as they are
MathRound(x) == IF IsFinite(x) THEN Frac(Floor(Add(x, Frac(1, 2))), 1) ELSE x

\* Math.max and Math.min of two numbers, NaN if either is NaN
MathMax(a, b) == IF IsNaN(a) \/ IsNaN(b) THEN NaN ELSE IF Less(a, b) THEN b ELSE a

MathMin(a, b) == IF IsNaN(a) \/ IsNaN(b) THEN NaN ELSE IF Less(b, a) THEN b ELSE a

\* the grade under the percentage
Grade(normalized) ==
    IF normalized >= 90 THEN "A+"
    ELSE IF normalized >= 80 THEN "A"
    ELSE IF normalized >= 70 THEN "B+"
    ELSE IF normalized >= 60 THEN "B"
    ELSE IF normalized >= 50 THEN "C"
    ELSE "D"

\* mutant of RadialScore: the score is cut to its integer part
RadialScoreTruncates(score) ==
    LET given == IF score = Undefined THEN Zero ELSE score
        cut == IF IsFinite(given) THEN Frac(Floor(given), 1) ELSE OrElse(given, Zero)
        normalized == MathMax(Zero, MathMin(Frac(100, 1), cut))[1]
    IN  [text |-> <<normalized, "%">>, grade |-> Grade(normalized)]

\* what RadialScore renders: the percentage text and the grade
RadialScore(score) ==
    LET given == IF score = Undefined THEN Zero ELSE score
        normalized ==
            MathMax(Zero, MathMin(Frac(100, 1), MathRound(OrElse(given, Zero))))[1]
    IN  [text |-> <<normalized, "%">>, grade |-> Grade(normalized)]

\* score props: missing, NaN, the infinities and the halves from -2 to 102
ScorePool ==
    {Undefined, NaN, <<1, 0>>, <<-1, 0>>} \cup {Frac(n, 2) : n \in -4..204}
        \cup {Frac(449, 5), Frac(896, 10), Frac(4951, 100)}

\* ----------------------------------------------------- helper call steps
\* texts handed to the lexical scorer
TextPool ==
    { <<>>, <<" ">>, <<"a", " ", "b">>, <<"A", " ", "b">>, <<"a", " ", "c">>,
      <<"b", " ", "a", " ">>, <<" ", "c">>, <<"a", " ", " ", "b", " ", "a">> }

PureUnchanged ==
    /\ UNCHANGED <<corpus, snapshots, ingest, ui>>
    /\ UNCHANGED queryVars
    /\ UNCHANGED requestVars
    /\ UNCHANGED searchVars
    /\ UNCHANGED llmVars

\* the lexical score of a text against a content, as performHybridSearch
\* asks for it: both lower-cased, undefined and "" given as ""
TextSimilarityCall(text, content) ==
    /\ call = NoCall
    /\ call' = [fn |-> "computeTextSimilarity", args |-> <<text, content>>,
                result |-> computeTextSimilarity(ToLowerCase(text), ToLowerCase(content))]
    /\ PureUnchanged

\* RadialScore is rendered with a score prop
RadialScoreCall(score) ==
    /\ call = NoCall
    /\ call' = [fn |-> "RadialScore", args |-> <<score>>, result |-> RadialScore(score)]
    /\ PureUnchanged

\* ------------------------------------------------------------------ C24
\* the words of a text: its lower-cased runs of non-blank characters
Words(text) == SetOf(SplitWhitespace(ToLowerCase(text))) \ {<<>>}

\* C24: computeTextSimilarity returns |intersection| / |union| of the two
\* texts' lower-cased word sets, which lies in [0,1], and returns 0 when either
\* text has no word (it is empty or blank).
C24_JaccardOfWords ==
    call.fn = "computeTextSimilarity" =>
        LET words1 == Words(call.args[1])
            words2 == Words(call.args[2])
        IN  /\ InUnit(call.result)
            /\ (words1 = {} \/ words2 = {}) => call.result = Zero
            /\ (words1 # {} /\ words2 # {}) =>
                  call.result = Frac(Cardinality(words1 \cap words2),
                                     Cardinality(words1 \cup words2))

\* ------------------------------------------------------------------ C28
\* the integer N is x rounded to the nearest integer and clamped to 0..100
RoundedAndClamped(x, N) ==
    IF x = Undefined \/ IsNaN(x) THEN N = 0
    ELSE IF ~IsFinite(x) THEN N = (IF x[1] > 0 THEN 100 ELSE 0)
    ELSE \E r \in -3..103 :
            /\ Leq(Sub(x, Frac(1, 2)), Frac(r, 1))
            /\ Leq(Frac(r, 1), Add(x, Frac(1, 2)))
            /\ N = (IF r < 0 THEN 0 ELSE IF r > 100 THEN 100 ELSE r)

\* C28: RadialScore shows N% with N the score rounded to the nearest
\* integer and clamped to 0..100 (0 without a score), and the one grade of
\* N: A+ from 90, A from 80, B+ from 70, B from 60, C from 50, D below.
C28_PercentAndGrade ==
    call.fn = "RadialScore" =>
        LET N == call.result.text[1]
        IN  /\ N \in 0..100
            /\ call.result.text = <<N, "%">>
            /\ RoundedAndClamped(call.args[1], N)
            /\ call.result.grade \in {"A+", "A", "B+", "B", "C", "D"}
            /\ call.result.grade = "A+" <=> N >= 90
            /\ call.result.grade = "A" <=> N \in 80..89
            /\ call.result.grade = "B+" <=> N \in 70..79
            /\ call.result.grade = "B" <=> N \in 60..69
            /\ call.result.grade = "C" <=> N \in 50..59
            /\ call.result.grade = "D" <=> N < 50

\* a score of 89.5 is shown as 90% with grade A+
C28_Witness ==
    /\ call.fn = "RadialScore"
    /\ call.args[1] = Frac(179, 2)
    /\ call.result = [text |-> <<90, "%">>, grade |-> "A+"]

\* ------------------------------------------------- IEEE 754 double values
\* The scores are JavaScript numbers: every arithmetic step gives the double
\* nearest to the exact result, a tie going to the even mantissa. Naturals of
\* any size are sequences of limbs, lowest limb first, without a zero on top.
LimbBits == 15

RECURSIVE Pow2(_)
Pow2(k) == IF k = 0 THEN 1 ELSE 2 * Pow2(k - 1)

Base == Pow2(LimbBits)

Limb(a, i) == IF i <= Len(a) THEN a[i] ELSE 0

RECURSIVE NTrim(_)
NTrim(a) ==
    IF a = <<>> THEN <<>>
    ELSE IF a[Len(a)] = 0 THEN NTrim(SubSeq(a, 1, Len(a) - 1)) ELSE a

RECURSIVE NFromInt(_)
NFromInt(n) == IF n = 0 THEN <<>> ELSE <<n % Base>> \o NFromInt(n \div Base)

RECURSIVE NAddFrom(_, _, _, _)
NAddFrom(a, b, i, carry) ==
    IF i > Len(a) /\ i > Len(b)
    THEN (IF carry = 0 THEN <<>> ELSE <<carry>>)
    ELSE LET t == Limb(a, i) + Limb(b, i) + carry
         IN  <<t % Base>> \o NAddFrom(a, b, i + 1, t \div Base)

NAdd(a, b) == NAddFrom(a, b, 1, 0)

RECURSIVE NSubFrom(_, _, _, _)
NSubFrom(a, b, i, borrow) ==
    IF i > Len(a) THEN <<>>
    ELSE LET t == Limb(a, i) - Limb(b, i) - borrow
         IN  IF t < 0 THEN <<t + Base>> \o NSubFrom(a, b, i + 1, 1)
             ELSE <<t>> \o NSubFrom(a, b, i + 1, 0)

\* a - b for a >= b
NSub(a, b) == NTrim(NSubFrom(a, b, 1, 0))

RECURSIVE NCmpFrom(_, _, _)
NCmpFrom(a, b, i) ==
    IF i = 0 THEN 0
    ELSE IF a[i] < b[i] THEN -1
    ELSE IF a[i] > b[i] THEN 1
    ELSE NCmpFrom(a, b, i - 1)

\* -1, 0 or 1 as a is below, equal to or above b
NCmp(a, b) ==
    IF Len(a) < Len(b) THEN -1
    ELSE IF Len(a) > Len(b) THEN 1
    ELSE NCmpFrom(a, b, Len(a))

RECURSIVE NMulSmallFrom(_, _, _, _)
NMulSmallFrom(a, k, i, carry) ==
    IF i > Len(a) THEN (IF carry = 0 THEN <<>> ELSE <<carry>>)
    ELSE LET t == a[i] * k + carry
         IN  <<t % Base>> \o NMulSmallFrom(a, k, i + 1, t \div Base)

\* a * k for a limb k
NMulSmall(a, k) == IF k = 0 THEN <<>> ELSE NMulSmallFrom(a, k, 1, 0)

NShiftLimb(a) == IF a = <<>> THEN <<>> ELSE <<0>> \o a

RECURSIVE NMulFrom(_, _, _)
NMulFrom(a, b, j) ==
    IF j > Len(b) THEN <<>>
    ELSE NAdd(NMulSmall(a, b[j]), NShiftLimb(NMulFrom(a, b, j + 1)))

NMul(a, b) == NMulFrom(a, b, 1)

RECURSIVE NPow2(_)
NPow2(k) == IF k >= LimbBits THEN <<0>> \o NPow2(k - LimbBits) ELSE <<Pow2(k)>>

\* a * 2^k
NShl(a, k) == NMul(a, NPow2(k))

RECURSIVE BitLen(_)
BitLen(n) == IF n = 0 THEN 0 ELSE 1 + BitLen(n \div 2)

NBitLen(a) == IF a = <<>> THEN 0 ELSE LimbBits * (Len(a) - 1) + BitLen(a[Len(a)])

\* bit p of a, the lowest bit being bit 0
NBit(a, p) == (Limb(a, p \div LimbBits + 1) \div Pow2(p % LimbBits)) % 2

NIsOdd(a) == NBit(a, 0) = 1

\* floor(a / 2^k)
NShr(a, k) ==
    LET w == k \div LimbBits
        j == k % LimbBits
    IN  IF Len(a) <= w THEN <<>>
        ELSE NTrim([i \in 1..(Len(a) - w) |->
                      a[i + w] \div Pow2(j) + (Limb(a, i + w + 1) % Pow2(j)) * Pow2(LimbBits - j)])

\* one step of the long division of n by d: bit p of n is taken down
NDivStep(n, d, p, st) ==
    LET r1 == NAdd(NAdd(st.r, st.r), NFromInt(NBit(n, p)))
        q1 == NAdd(st.q, st.q)
    IN  IF NCmp(r1, d) >= 0 THEN [q |-> NAdd(q1, <<1>>), r |-> NSub(r1, d)]
        ELSE [q |-> q1, r |-> r1]

\* the steps for the bits p down to 0, four to a round
RECURSIVE NDivFrom(_, _, _, _)
NDivFrom(n, d, p, st) ==
    IF p < 0 \/ Len(st.r) < 0 THEN st
    ELSE IF p < 3 THEN NDivFrom(n, d, p - 1, NDivStep(n, d, p, st))
    ELSE NDivFrom(n, d, p - 4,
                  NDivStep(n, d, p - 3,
                           NDivStep(n, d, p - 2,
                                    NDivStep(n, d, p - 1, NDivStep(n, d, p, st)))))

\* long division: quotient q and remainder r of n by d; the top bits of n
\* that make a number below d give no quotient bit
NDivMod(n, d) ==
    LET p == NBitLen(n) - NBitLen(d)
    IN  IF p < 0 THEN [q |-> <<>>, r |-> n]
        ELSE NDivFrom(n, d, p, [q |-> <<>>, r |-> NShr(n, p + 1)])

\* one step of the root of n: bit p is set in s if the square stays within n
NSqrtStep(n, p, s) ==
    LET t == NAdd(s, NPow2(p))
    IN  IF NCmp(NMul(t, t), n) <= 0 THEN t ELSE s

\* the steps for the bits p down to 0, four to a round
RECURSIVE NSqrtFrom(_, _, _)
NSqrtFrom(n, p, s) ==
    IF p < 0 \/ Len(s) < 0 THEN s
    ELSE IF p < 3 THEN NSqrtFrom(n, p - 1, NSqrtStep(n, p, s))
    ELSE NSqrtFrom(n, p - 4,
                   NSqrtStep(n, p - 3,
                             NSqrtStep(n, p - 2, NSqrtStep(n, p - 1, NSqrtStep(n, p, s)))))

\* the root of n rounded down
NSqrt(n) == NSqrtFrom(n, (NBitLen(n) + 1) \div 2, <<>>)

\* bits of the mantissa of a double
MantissaBits == 53

\* a double: sign (-1, 0 or 1), mantissa m of MantissaBits bits and exponent
\* e, the value being sign * m * 2^e; zero has no mantissa
Double(sign, m, e) == [sign |-> sign, m |-> m, e |-> e]

DZero == Double(0, <<>>, 0)

\* the double nearest to sign * (q + f) * 2^e, where q is a natural of more
\* than MantissaBits bits and the fraction f < 1 is zero unless sticky
RoundBits(sign, q, sticky, e) ==
    LET x == NBitLen(q) - MantissaBits
        kept == NShr(q, x)
        cut == NSub(q, NShl(kept, x))
        half == NCmp(cut, NPow2(x - 1))
        up == half > 0 \/ (half = 0 /\ (sticky \/ NIsOdd(kept)))
        m == IF up THEN NAdd(kept, <<1>>) ELSE kept
    IN  IF NBitLen(m) > MantissaBits THEN Double(sign, NShr(m, 1), e + x + 1)
        ELSE Double(sign, m, e + x)

\* the double nearest to sign * n * 2^e for a natural n > 0
RoundNat(sign, n, e) ==
    LET k == IF NBitLen(n) > MantissaBits THEN 0 ELSE MantissaBits + 1 - NBitLen(n)
    IN  RoundBits(sign, NShl(n, k), FALSE, e - k)

\* the double nearest to sign * (num / den) * 2^e for naturals num, den > 0
RoundRatio(sign, num, den, e) ==
    LET k == MantissaBits + 1 - (NBitLen(num) - NBitLen(den))
        dm == IF k >= 0 THEN NDivMod(NShl(num, k), den) ELSE NDivMod(num, NShl(den, -k))
    IN  RoundBits(sign, dm.q, dm.r # <<>>, e - k)

\* the double of an integer
DFromInt(n) ==
    IF n = 0 THEN DZero
    ELSE RoundNat(IF n < 0 THEN -1 ELSE 1, NFromInt(Abs(n)), 0)

DOne == DFromInt(1)

DNeg(a) == [a EXCEPT !.sign = -a.sign]

\* a * b
DMul(a, b) ==
    IF a.sign = 0 \/ b.sign = 0 THEN DZero
    ELSE RoundNat(a.sign * b.sign, NMul(a.m, b.m), a.e + b.e)

\* a / b for b # 0
DDiv(a, b) ==
    IF a.sign = 0 THEN DZero
    ELSE RoundRatio(a.sign * b.sign, a.m, b.m, a.e - b.e)

\* a < b
DLess(a, b) ==
    IF a.sign # b.sign THEN a.sign < b.sign
    ELSE IF a.sign = 0 THEN FALSE
    ELSE LET below == a.e < b.e \/ (a.e = b.e /\ NCmp(a.m, b.m) < 0)
             above == a.e > b.e \/ (a.e = b.e /\ NCmp(a.m, b.m) > 0)
         IN  IF a.sign > 0 THEN below ELSE above

\* a - b
DSub(a, b) ==
    IF b.sign = 0 THEN a
    ELSE IF a.sign = 0 THEN DNeg(b)
    ELSE LET e == Min2(a.e, b.e)
             x == NShl(a.m, a.e - e)
             y == NShl(b.m, b.e - e)
         IN  IF a.sign # b.sign THEN RoundNat(a.sign, NAdd(x, y), e)
             ELSE IF NCmp(x, y) = 0 THEN DZero
             ELSE IF NCmp(x, y) > 0 THEN RoundNat(a.sign, NSub(x, y), e)
             ELSE RoundNat(-a.sign, NSub(y, x), e)

\* Math.sqrt of a double above 0
DSqrt(a) ==
    LET odd == a.e % 2 # 0
        m == IF odd THEN NAdd(a.m, a.m) ELSE a.m
        e == IF odd THEN a.e - 1 ELSE a.e
        scaled == NShl(m, 2 * 28)
        s == NSqrt(scaled)
    IN  RoundBits(1, s, NCmp(NMul(s, s), scaled) # 0, e \div 2 - 28)

\* ------------------------------------------- the helpers on double values
\* computeCosineSimilarity on vectors of small integers, in doubles: the sums
\* dot, na and nb are exact; the two roots, their product and the quotient
\* are rounded. An absent vector is Undefined.
computeCosineSimilarityDouble(vec1, vec2) ==
    IF vec1 = Undefined \/ vec2 = Undefined \/ Len(vec1) # Len(vec2) THEN DZero
    ELSE LET dot == SumProd(vec1, vec2, 1)
             na == SumProd(vec1, vec1, 1)
             nb == SumProd(vec2, vec2, 1)
         IN  IF na = 0 \/ nb = 0 THEN DZero
             ELSE DDiv(DFromInt(dot), DMul(DSqrt(DFromInt(na)), DSqrt(DFromInt(nb))))

\* mutant of normalizeScoreDouble: the distance to the minimum is not divided
\* by the spread
normalizeScoreDoubleUnscaled(score, min, max) ==
    IF max = min THEN DOne ELSE DSub(score, min)

\* normalizeScore in doubles
normalizeScoreDouble(score, min, max) ==
    IF max = min THEN DOne ELSE DDiv(DSub(score, min), DSub(max, min))

\* Math.min(...scores) and Math.max(...scores)
DMinOf(scores) ==
    CHOOSE x \in SetOf(scores) : \A y \in SetOf(scores) : ~DLess(y, x)

DMaxOf(scores) ==
    CHOOSE x \in SetOf(scores) : \A y \in SetOf(scores) : ~DLess(x, y)

\* the batch of normalized scores of a batch of raw scores
NormalizeBatch(scores) ==
    LET min == DMinOf(scores)
        max == DMaxOf(scores)
    IN  [i \in DOMAIN scores |-> normalizeScoreDouble(scores[i], min, max)]

\* vectors handed to the vector scorer: absent, null vector, of one and of
\* two components
VectorPool ==
    { Undefined, <<0, 0>>, <<1>>, <<1, 0>>, <<0, 1>>, <<-1, 0>>, <<3, 4>>, <<-4, 3>>,
      <<3, 3>>, <<-3, -3>>, <<1, 2>>, <<2, -1>> }

\* bound: raw scores in a batch
MaxBatch == 3

\* raw lexical scores: 1/3, 1/2, 2/3 and 1
RawScorePool ==
    { DDiv(DFromInt(1), DFromInt(3)), DDiv(DFromInt(1), DFromInt(2)),
      DDiv(DFromInt(2), DFromInt(3)), DOne }

RawBatchPool == UNION { [1..n -> RawScorePool] : n \in 1..MaxBatch }

\* factors: 2, 1/2 and 3
ScalePool == { DFromInt(2), DDiv(DFromInt(1), DFromInt(2)), DFromInt(3) }

\* the vector score of a stored embedding against the query embedding
CosineCall(vec1, vec2) ==
    /\ call = NoCall
    /\ call' = [fn |-> "computeCosineSimilarity", args |-> <<vec1, vec2>>,
                result |-> computeCosineSimilarityDouble(vec1, vec2)]
    /\ PureUnchanged

\* a batch of raw scores is normalized, as it is and with every score
\* multiplied by c
NormalizeCall(scores, c) ==
    /\ call = NoCall
    /\ call' = [fn |-> "normalizeScore", args |-> <<scores, c>>,
                result |-> [plain |-> NormalizeBatch(scores),
                            scaled |-> NormalizeBatch([i \in DOMAIN scores |->
                                                          DMul(c, scores[i])])]]
    /\ PureUnchanged

PureInit == Init /\ corpus = <<>>

PureNext ==
    \/ \E text \in TextPool, content \in TextPool : TextSimilarityCall(text, content)
    \/ \E score \in ScorePool : RadialScoreCall(score)
    \/ \E vec1 \in VectorPool, vec2 \in VectorPool : CosineCall(vec1, vec2)
    \/ \E scores \in RawBatchPool, c \in ScalePool : NormalizeCall(scores, c)

\* the helpers called once each with arguments of the pools
PureSpec == PureInit /\ [][PureNext]_vars

\* ------------------------------------------------------------------ C25
\* C25: computeCosineSimilarity returns 0 when a vector is absent, the
\* lengths differ or a vector has magnitude 0; otherwise its result has the
\* sign of the dot product, lies in [-1,1], and is dot / (|a| |b|) (checked
\* where both magnitudes are integers: the quotient rounded once).
C25_CosineInRange ==
    call.fn = "computeCosineSimilarity" =>
        LET a == call.args[1]
            b == call.args[2]
            degenerate ==
                \/ a = Undefined
                \/ b = Undefined
                \/ Len(a) # Len(b)
                \/ SumProd(a, a, 1) = 0
                \/ SumProd(b, b, 1) = 0
            na == SumProd(a, a, 1)
            nb == SumProd(b, b, 1)
            squares == (\E k \in 0..na : k * k = na) /\ (\E k \in 0..nb : k * k = nb)
        IN  /\ degenerate => call.result = DZero
            /\ ~degenerate =>
                  /\ call.result.sign = Sign(SumProd(a, b, 1))
                  /\ ~DLess(DOne, call.result)
                  /\ ~DLess(call.result, DNeg(DOne))
                  /\ squares =>
                        call.result = DDiv(DFromInt(SumProd(a, b, 1)),
                                           DFromInt(Sqrt(na) * Sqrt(nb)))

PowerOfTwo(c) == c.sign = 1 /\ c.m = DOne.m

\* all scores of the batch are equal
Flat(scores) == \A i, j \in DOMAIN scores : scores[i] = scores[j]

IsWhite(c) == c \in {" ", "\n", "\r", "\t"}

\* the characters of s at the positions of the set kept, in their order
AtPositions(s, kept) ==
    [k \in 1..Cardinality(kept) |->
        s[CHOOSE i \in kept : Cardinality({j \in kept : j <= i}) = k]]

\* story.trim().replace(/\r\n/g, '\n').replace(/\s+/g, ' '): no blank at the
\* ends, every run of blanks one space
CollapseWhite(s) ==
    LET inked == {i \in DOMAIN s : ~IsWhite(s[i])}
        first == CHOOSE i \in inked : \A j \in inked : i <= j
        last == CHOOSE i \in inked : \A j \in inked : j <= i
        kept == {i \in first..last : ~IsWhite(s[i]) \/ ~IsWhite(s[i - 1])}
    IN  IF inked = {} THEN <<>>
        ELSE [k \in 1..Cardinality(kept) |->
                 LET c == AtPositions(s, kept)[k] IN IF IsWhite(c) THEN " " ELSE c]

\* the word w stands in s at position i, whatever the case of the letters
StandsAt(s, w, i) ==
    /\ i >= 1
    /\ i + Len(w) - 1 <= Len(s)
    /\ \A k \in DOMAIN w : Lower(s[i + k - 1]) = w[k]

\* /^as a .+? i want .+? so that .+?$/i.test(s)
IsStructured(s) ==
    /\ StandsAt(s, Chars("as a "), 1)
    /\ \E i, j \in DOMAIN s :
          /\ i >= 7
          /\ StandsAt(s, Chars(" i want "), i)
          /\ j >= i + 9
          /\ StandsAt(s, Chars(" so that "), j)
          /\ j + 9 <= Len(s)

NoMatch == [found |-> FALSE, group |-> <<>>]

\* s.match(/(?:lead1|lead2|...) ([^,.]+)/i): the leftmost place where one of
\* the leads (tried in their order), a space and a character other than
\* comma and full stop follow each other; the group runs up to the next comma
\* or full stop or to the end
MatchAfter(s, leads) ==
    LET InGroup(c) == c \notin {",", "."}
        Fits(i, n) ==
            /\ StandsAt(s, leads[n] \o <<" ">>, i)
            /\ i + Len(leads[n]) + 1 <= Len(s)
            /\ InGroup(s[i + Len(leads[n]) + 1])
        places == {i \in DOMAIN s : \E n \in DOMAIN leads : Fits(i, n)}
    IN  IF places = {} THEN NoMatch
        ELSE LET i == CHOOSE p \in places : \A q \in places : p <= q
                 n == CHOOSE m \in DOMAIN leads :
                         Fits(i, m) /\ \A l \in 1..(m - 1) : ~Fits(i, l)
                 from == i + Len(leads[n]) + 1
             IN  [found |-> TRUE, group |-> SubSeq(s, from, RunEnd(s, from, InGroup))]

\* the leads of roleMatch, actionMatch and valueMatch, each alternative in
\* the order the expression tries it
RoleLeads ==
    << Chars("as an"), Chars("as a"), Chars("as the"), Chars("for the"), Chars("for"),
       Chars("from the"), Chars("from") >>

ActionLeads ==
    << Chars("want to"), Chars("need to"), Chars("would like to"),
       Chars("should be able to") >>

ValueLeads == << Chars("so that"), Chars("in order to"), Chars("to be able to") >>

\* String.prototype.trim
Trim(s) ==
    LET inked == {i \in DOMAIN s : ~IsWhite(s[i])}
    IN  IF inked = {} THEN <<>>
        ELSE SubSeq(s, CHOOSE i \in inked : \A j \in inked : i <= j,
                       CHOOSE i \in inked : \A j \in inked : j <= i)

normalizeStory(raw) ==
    LET collapsed == CollapseWhite(raw)
        roleMatch == MatchAfter(collapsed, RoleLeads)
        actionMatch == MatchAfter(collapsed, ActionLeads)
        valueMatch == MatchAfter(collapsed, ValueLeads)
        role == IF roleMatch.found THEN Trim(roleMatch.group) ELSE Chars("user")
        action == IF actionMatch.found THEN Trim(actionMatch.group) ELSE collapsed
        value == IF valueMatch.found THEN Trim(valueMatch.group)
                 ELSE Chars("achieve the desired outcome")
        normalized ==
            IF IsStructured(collapsed) THEN collapsed
            ELSE Chars("As a ") \o role \o Chars(", I want to ") \o action
                     \o Chars(" so that ") \o value
        cased == [i \in DOMAIN normalized |->
                     IF i = 1 THEN Upper(normalized[i]) ELSE Lower(normalized[i])]
    IN  IF cased # <<>> /\ cased[Len(cased)] \in {".", "!", "?"} THEN cased
        ELSE cased \o <<".">>

\* ---------------------------------------------------------------------
\* The handler on a two-document store: one story about login, one about
\* logout, with orthogonal embeddings
\* ---------------------------------------------------------------------

LoginText == Chars("as a user I want login")

LogoutText == Chars("as a user I want logout")

ScenarioCorpora ==
    { << Doc("a", LoginText, TRUE, TRUE, <<1, 0>>), Doc("b", LogoutText, TRUE, TRUE, <<0, 1>>) >>,
      << Doc("b", LogoutText, TRUE, TRUE, <<0, 1>>), Doc("a", LoginText, TRUE, TRUE, <<1, 0>>) >> }

\* the request's config: equal vector and lexical weights, two results
ScenarioConfig == Config(Frac(1, 2), Frac(1, 2), Undefined, Frac(2, 1))

\* query stories: the login story as stored, the same with other spacing,
\* and the logout story
ScenarioTexts == {LoginText, Chars(" as a  user I want login "), LogoutText}

ScenarioEmbeddings == { <<1, 0>>, <<0, 1>> }

ScenarioInit ==
    /\ corpus \in ScenarioCorpora
    /\ Start

ScenarioNext ==
    \/ \E text \in ScenarioTexts :
          Receive("two", Story(TRUE, text), TRUE, ScenarioConfig, normalizeStory(text))
    \/ EmbedFails
    \/ \E e \in ScenarioEmbeddings : EmbedReturns(e)
    \/ ConnectFails
    \/ ConnectReturns
    \/ CountFails
    \/ CountReturns
    \/ FindFails
    \/ FindReturns
    \/ RefineReturns

ScenarioSpec == ScenarioInit /\ [][ScenarioNext]_vars

\* the login query with the login embedding has been answered
LoginAnswered ==
    /\ pc = "done"
    /\ response.status = 200
    /\ story.text = LoginText
    /\ storyEmbedding = <<1, 0>>
    /\ config = ScenarioConfig

\* C27: with the login and logout stories stored under orthogonal embeddings,
\* the login query embedded as the login story, weights one half each and
\* topK 2, the answer lists a first with normalized vector score 1,
\* normalized lexical score 1 and fused score 1, and b second with a
\* strictly lower fused score
C27_LoginRanksFirst ==
    LoginAnswered =>
        /\ Len(response.ranked) = 2
        /\ response.ranked[1]._id = "a"
        /\ response.ranked[1].vector_score_norm = One
        /\ response.ranked[1].bm25_score_norm = One
        /\ response.ranked[1].hybrid_score = One
        /\ response.ranked[2]._id = "b"
        /\ Less(response.ranked[2].hybrid_score, response.ranked[1].hybrid_score)

\* the login query answered: its text was rewritten by normalizeStory, so a's
\* raw lexical score is 3/7, and both documents are listed
C27_Witness ==
    /\ LoginAnswered
    /\ normalizedStory # LoginText
    /\ Len(response.ranked) = 2
    /\ response.ranked[1]._id = "a"
    /\ response.ranked[1].bm25_score = Frac(3, 7)
    /\ response.ranked[2].bm25_score = Frac(1, 3)

====
